---- MODULE Spec2Model ----
(***************************************************************************)
(* The oracle feeder's commit-reveal vote state machine: Oracle.Start,     *)
(* Oracle.executeTick and Oracle.checkVotingPeriod (package oracle),       *)
(* OracleClient.BroadcastTx and broadcastTx (package client), and the      *)
(* ChainHeight tracker that both read.                                     *)
(*                                                                         *)
(* Three tasks interleave: the chain-height subscriber (NewBlockHeader,    *)
(* HeaderParseError, SubscriberExit), a reader of the prices (GetPrices),  *)
(* and the oracle's tick loop, whose position is pc:                       *)
(*   "tick"      at the select of Start's loop                             *)
(*   "broadcast" inside BroadcastTx, at the top of its retry loop          *)
(*   "inTx"      inside BroadcastTx, broadcastTx called, tx not yet sent   *)
(*   "waitTx"    inside broadcastTx, in waitForTx                          *)
(*   "recorded"  prevote broadcast returned nil, height not yet re-read    *)
(*   "sleep"     executeTick has returned, Start sleeps tickerTimeout      *)
(*                                                                         *)
(* Spec is the running feeder with its root context; TrackerSpec is the    *)
(* ChainHeight tracker from its construction on; PricesSpec is setPrices'  *)
(* publication against GetPrices; RatesSpec is generateExchangeRatesString *)
(* over price maps of several bases.                                       *)
(*                                                                         *)
(* The aggregation pipeline is modelled over fixed-point decimals of       *)
(* DecUnit units: VwapSpec applies ComputeVWAP, TvwapSpec ComputeTVWAP,    *)
(* FilterSpec the two deviation filters and ConvertSpec the conversions to *)
(* USD, each to a snapshot drawn from a bounded set; ComputedSpec applies  *)
(* GetComputedPrices to snapshots of candles and tickers; GatherSpec is    *)
(* setPrices from the start of the providers' goroutines to the call of    *)
(* GetComputedPrices.                                                      *)
(*                                                                         *)
(* TickerSpec is a provider's GetTickerPrices over its ticker cache;       *)
(* ConfigSpec is the start-up path ParseConfig, CheckProviderMinimum and   *)
(* the creation of the providers in setPrices; HealthSpec is Start's loop  *)
(* against GetLastPriceSyncTimestamp under a wall clock.                   *)
(***************************************************************************)
EXTENDS Integers, Sequences, FiniteSets, TLC

\* ------------------------------------------------------------------ bounds

MaxHeight == 10        \* chain heights 1..MaxHeight are explored
MaxVotePeriod == 7     \* the chain's VotePeriod parameter is 1..MaxVotePeriod
NumPrices == 2         \* distinct prices a base may be given
ParamBucket == 8       \* heights per refresh bucket of the param cache
DecUnit == 1000000     \* a Dec is an integer count of 1/DecUnit (sdk.Dec: of 10^-18)
MaxClock == 8          \* the wall clock runs over 1..MaxClock

\* sdk.Dec renders 18 fractional digits.
Precision == 18

Heights == 1..MaxHeight
VotePeriods == 1..MaxVotePeriod
\* generateSalt returns a hex string; two values tell a fresh salt from a stored one.
Salts == {"a1f3", "9c0e"}
Bases == {"ATOM"}
\* Bases of a configuration with several pairs; "ATOM1" sorts before "ATOM"
\* once ":" is appended.
TestBases == {"ATOM", "ATOM1", "OSMO"}

\* A Go pointer or optional value: <<>> is nil, <<x>> points at x.
Nil == <<>>
Some(x) == <<x>>

\* map[string]sdk.Dec over the configured bases (the empty map included); a
\* price is an sdk.Dec counted in hundredths.
PriceMaps == UNION {[B -> 1..NumPrices] : B \in SUBSET Bases}

\* Prices with one, three and four digits: 0.05, 3.72, 40.13.
TestDecs == {5, 372, 4013}
TestPriceMaps == UNION {[B -> TestDecs] : B \in SUBSET TestBases}

\* The maps setPrices publishes in a configuration with two bases.
PairBases == {"ATOM", "OSMO"}
PairPriceMaps == UNION {[B -> 1..NumPrices] : B \in SUBSET PairBases}

VARIABLES
  lastChainHeight,     \* ChainHeight.lastChainHeight
  errGetChainHeight,   \* ChainHeight.errGetChainHeight # nil
  votePeriod,          \* the chain's x/oracle Params.VotePeriod
  subscriber,          \* the tracker and its subscriber task: "none" not constructed,
                       \* "rejected" "startFailed" "subscribeFailed" newChainHeight
                       \* returned that error, "running", "done" task returned
  initialHeight,       \* history: the initialHeight newChainHeight was called with
  lastHeader,          \* history: height of the last header event processed, 0 if none
  ctxDone,             \* the root context is cancelled
  closerClosed,        \* Oracle.closer has been closed
  paramCache,          \* Oracle.paramCache: Nil or Some([bucket, votePeriod])
  paramQueries,        \* history: successful params queries made in paramCache's bucket
  prices,              \* Oracle.prices
  pricesMutex,         \* Oracle.pricesMutex: [writer, readers]
  setp,                \* setPrices publishing: [pc, computedPrices]
  getp,                \* a GetPrices call: [pc, m, todo, prices]
  ratesStr,            \* RatesSpec: Nil or Some(string generateExchangeRatesString returned)
  previousPrevote,     \* Oracle.previousPrevote: Nil or Some(PreviousPrevote)
  previousVotePeriod,  \* Oracle.previousVotePeriod
  pc,                  \* position of the tick loop
  tk,                  \* locals of the executeTick call in progress or just returned
  bc,                  \* locals of the BroadcastTx call in progress or just returned
  outcome,             \* history: how the last executeTick call returned
  outstanding,         \* history: Some(hash) of the prevote that was broadcast and is
                       \* neither revealed nor missed yet, else Nil
  lastVotePeriod,      \* history: currentVotePeriod of the last tick whose vote succeeded
  votesInPeriod,       \* history: successful votes by ticks computing lastVotePeriod
  providerPrices,      \* setPrices' providerPrices: provider -> base -> TickerPrice
  providerCandles,     \* setPrices' providerCandles: provider -> base -> candles
  deviations,          \* Oracle.deviations: base -> threshold
  agg,                 \* Nil, or Some(what the aggregation function under study returned)
  fetch,               \* setPrices' errgroup: provider -> position of its goroutine
  providerPairs,       \* Oracle.providerPairs: provider -> its currency pairs
  tickerCache,         \* a websocket provider's tickers: pair name -> TickerPrice
  cfg,                 \* Nil, or Some(the Config under validation)
  lastPriceSyncTS,     \* Oracle.lastPriceSyncTS, 0 for the zero time
  wallClock            \* the time time.Now() returns, 0 where no clock is modelled

chainVars == <<lastChainHeight, errGetChainHeight, votePeriod>>
trackerVars == <<subscriber, initialHeight, lastHeader>>
ctxVars == <<ctxDone, closerClosed>>
lockVars == <<pricesMutex, setp, getp>>
voteVars == <<previousPrevote, previousVotePeriod>>
histVars == <<outstanding, lastVotePeriod, votesInPeriod>>
\* What the tick loop writes, and what it only reads or never touches.
tickVars == <<paramCache, paramQueries, prices, previousPrevote, previousVotePeriod,
              pc, tk, bc, outcome, outstanding, lastVotePeriod, votesInPeriod>>
\* What only the aggregation pipeline and setPrices' gathering write.
provVars == <<tickerCache, cfg>>
healthVars == <<lastPriceSyncTS, wallClock>>
aggVars == <<providerPrices, providerCandles, deviations, agg, fetch, providerPairs, provVars,
             healthVars>>
sideVars == <<subscriber, initialHeight, lastHeader, ctxDone, closerClosed,
              pricesMutex, setp, getp, ratesStr, aggVars>>
vars == <<lastChainHeight, errGetChainHeight, votePeriod, subscriber, initialHeight,
          lastHeader, ctxDone, closerClosed, paramCache, paramQueries, prices,
          pricesMutex, setp, getp, ratesStr,
          previousPrevote, previousVotePeriod, pc, tk, bc, outcome,
          outstanding, lastVotePeriod, votesInPeriod,
          providerPrices, providerCandles, deviations, agg, fetch, providerPairs,
          tickerCache, cfg, lastPriceSyncTS, wallClock>>

NoTick == [blockHeight |-> 0, oracleVotePeriod |-> 0, salt |-> "", exchangeRatesStr |-> <<>>]
NoBc == [msg |-> Nil, nextBlockHeight |-> 0, timeoutHeight |-> 0, maxBlockHeight |-> 0,
         lastCheckHeight |-> 0, waitStart |-> 0, result |-> "none"]
NoSetPrices == [pc |-> "idle", computedPrices |-> <<>>]
NoGetPrices == [pc |-> "idle", m |-> <<>>, todo |-> {}, prices |-> <<>>]
Unlocked == [writer |-> FALSE, readers |-> 0]

\* ------------------------------------------------------------ pure helpers

\* executeTick: nextBlockHeight, currentVotePeriod, indexInVotePeriod.
NextBlockHeight(blockHeight) == blockHeight + 1
CurrentVotePeriod(blockHeight, vp) == NextBlockHeight(blockHeight) \div vp
IndexInVotePeriod(blockHeight, vp) == NextBlockHeight(blockHeight) % vp

\* A Go string is the sequence of its characters; a base symbol as one.
Chars(base) ==
  CASE base = "ATOM" -> <<"A", "T", "O", "M">>
    [] base = "ATOM1" -> <<"A", "T", "O", "M", "1">>
    [] base = "OSMO" -> <<"O", "S", "M", "O">>

\* The byte of a character, which Go's string comparison goes by.
CharCode(c) ==
  CASE c = "," -> 44 [] c = "." -> 46
    [] c = "0" -> 48 [] c = "1" -> 49 [] c = "2" -> 50 [] c = "3" -> 51 [] c = "4" -> 52
    [] c = "5" -> 53 [] c = "6" -> 54 [] c = "7" -> 55 [] c = "8" -> 56 [] c = "9" -> 57
    [] c = ":" -> 58
    [] c = "A" -> 65 [] c = "M" -> 77 [] c = "O" -> 79 [] c = "S" -> 83 [] c = "T" -> 84

Digit(n) ==
  CASE n = 0 -> "0" [] n = 1 -> "1" [] n = 2 -> "2" [] n = 3 -> "3" [] n = 4 -> "4"
    [] n = 5 -> "5" [] n = 6 -> "6" [] n = 7 -> "7" [] n = 8 -> "8" [] n = 9 -> "9"

RECURSIVE Digits(_)
Digits(n) == IF n < 10 THEN <<Digit(n)>> ELSE Digits(n \div 10) \o <<Digit(n % 10)>>

\* sdk.Dec.String of a price of d hundredths: the integer part, a point, and
\* Precision fractional digits, trailing zeros kept.
DecString(d) ==
  Digits(d \div 100) \o <<".">> \o <<Digit((d \div 10) % 10), Digit(d % 10)>>
    \o [i \in 1..(Precision - 2) |-> "0"]

\* fmt.Sprintf("%s:%s", base, avgPrice.String()).
RateEntry(base, avgPrice) == Chars(base) \o <<":">> \o DecString(avgPrice)

\* a < b for Go strings: bytewise lexicographic.
RECURSIVE StrLess(_, _)
StrLess(a, b) ==
  IF b = <<>> THEN FALSE
  ELSE IF a = <<>> THEN TRUE
  ELSE IF Head(a) = Head(b) THEN StrLess(Tail(a), Tail(b))
  ELSE CharCode(Head(a)) < CharCode(Head(b))

\* SortStrings by the base symbol alone (the text before the colon).
RECURSIVE BaseOf(_)
BaseOf(s) == IF s = <<>> \/ Head(s) = ":" THEN <<>> ELSE <<Head(s)>> \o BaseOf(Tail(s))

RECURSIVE InsertByBase(_, _)
InsertByBase(x, a) ==
  IF a = <<>> THEN <<x>>
  ELSE IF StrLess(BaseOf(x), BaseOf(Head(a))) THEN <<x>> \o a
  ELSE <<Head(a)>> \o InsertByBase(x, Tail(a))

RECURSIVE SortStringsByBase(_)
SortStringsByBase(a) ==
  IF a = <<>> THEN <<>> ELSE InsertByBase(Head(a), SortStringsByBase(Tail(a)))

\* sort.Strings: the array in increasing order.
RECURSIVE Insert(_, _)
Insert(x, a) ==
  IF a = <<>> THEN <<x>>
  ELSE IF StrLess(x, Head(a)) THEN <<x>> \o a
  ELSE <<Head(a)>> \o Insert(x, Tail(a))

RECURSIVE SortStrings(_)
SortStrings(a) == IF a = <<>> THEN <<>> ELSE Insert(Head(a), SortStrings(Tail(a)))

\* strings.Join(a, ",").
RECURSIVE Join(_)
Join(a) ==
  IF a = <<>> THEN <<>>
  ELSE IF Len(a) = 1 THEN a[1]
  ELSE a[1] \o <<",">> \o Join(Tail(a))

\* The orders in which a range over a map with these keys may visit them.
RangeOrders(keys) ==
  {o \in [1..Cardinality(keys) -> keys] : \A k \in keys : \E i \in DOMAIN o : o[i] = k}

\* generateExchangeRatesString for a non-empty map that the range visits in
\* this order: fill the array, sort it, join it.
ExchangeRatesIn(p, order) ==
  Join(SortStrings([i \in DOMAIN order |-> RateEntry(order[i], p[order[i]])]))

\* generateExchangeRatesString; <<>> is the return of "" and errNoPriceAvailable.
generateExchangeRatesString(p) ==
  IF DOMAIN p = {} THEN <<>>
  ELSE ExchangeRatesIn(p, CHOOSE order \in RangeOrders(DOMAIN p) : TRUE)

\* oracletypes.GetAggregateVoteHash: collision resistant, so the pair itself.
GetAggregateVoteHash(salt, exchangeRatesStr) == <<salt, exchangeRatesStr>>

\* ParamCache.IsOutdated: no params cached, or the height has left the bucket
\* the cache was filled in.
IsOutdated(currentBlockHeight) ==
  \/ paramCache = Nil
  \/ currentBlockHeight \div ParamBucket # paramCache[1].bucket

\* SkipCondition with the boundary test off by one (a tick one block before
\* the boundary goes on).
SkipConditionLate(currentVotePeriod, oracleVotePeriod, indexInVotePeriod) ==
  \/ previousVotePeriod # 0 /\ currentVotePeriod = previousVotePeriod
  \/ oracleVotePeriod - indexInVotePeriod < 1

\* checkVotingPeriod, first condition: skip until the next voting period.
SkipCondition(currentVotePeriod, oracleVotePeriod, indexInVotePeriod) ==
  \/ previousVotePeriod # 0 /\ currentVotePeriod = previousVotePeriod
  \/ oracleVotePeriod - indexInVotePeriod < 2

\* checkVotingPeriod, second condition: the period to vote in was missed.
MissCondition(currentVotePeriod) ==
  previousVotePeriod # 0 /\ currentVotePeriod - previousVotePeriod # 1

\* checkVotingPeriod: "skip" and "miss" are its two false returns.
checkVotingPeriod(currentVotePeriod, oracleVotePeriod, indexInVotePeriod) ==
  IF SkipCondition(currentVotePeriod, oracleVotePeriod, indexInVotePeriod) THEN "skip"
  ELSE IF MissCondition(currentVotePeriod) THEN "miss"
  ELSE "ok"

\* TimedOut with > for >= (one attempt more, at maxBlockHeight itself).
TimedOutLate(lastCheckHeight, maxBlockHeight) == lastCheckHeight > maxBlockHeight

\* BroadcastTx: lastCheckHeight >= maxBlockHeight.
TimedOut(lastCheckHeight, maxBlockHeight) == lastCheckHeight >= maxBlockHeight

\* NoPriceAvailable that lets an empty rates string through.
NoPriceAvailableIgnored(exchangeRatesStr) == FALSE

\* executeTick: generateExchangeRatesString returned errNoPriceAvailable.
NoPriceAvailable(exchangeRatesStr) == exchangeRatesStr = <<>>

\* ------------------------------------------------------------------- init

\* No provider cache and no configuration under study.
NoProvider ==
  /\ tickerCache = <<>>
  /\ cfg = Nil

\* No aggregation under way: setPrices has gathered nothing yet.
NoAggregation ==
  /\ providerPrices = <<>>
  /\ providerCandles = <<>>
  /\ deviations = <<>>
  /\ agg = Nil
  /\ fetch = <<>>
  /\ providerPairs = <<>>

\* No tick has completed, no clock runs.
NoHealth ==
  /\ lastPriceSyncTS = 0
  /\ wallClock = 0

AggIdle == NoProvider /\ NoHealth /\ NoAggregation

\* The feeder after NewOracleClient and New: the tracker was constructed with
\* the height 1 and its subscriber runs.
Init ==
  /\ lastChainHeight = 1
  /\ errGetChainHeight = FALSE
  /\ votePeriod \in VotePeriods
  /\ subscriber = "running"
  /\ initialHeight = 1
  /\ lastHeader = 0
  /\ ctxDone = FALSE
  /\ closerClosed = FALSE
  /\ paramCache = Nil
  /\ paramQueries = 0
  /\ prices = <<>>
  /\ pricesMutex = Unlocked
  /\ setp = NoSetPrices
  /\ getp = NoGetPrices
  /\ ratesStr = Nil
  /\ previousPrevote = Nil
  /\ previousVotePeriod = 0
  /\ pc = "tick"
  /\ tk = NoTick
  /\ bc = NoBc
  /\ outcome = "none"
  /\ outstanding = Nil
  /\ lastVotePeriod = -1
  /\ votesInPeriod = 0
  /\ AggIdle

\* ------------------------------------------------- chain-height subscriber

\* NewBlockHeader that a returned subscriber still performs.
NewBlockHeaderAfterExit ==
  /\ subscriber \in {"running", "done"}
  /\ lastChainHeight < MaxHeight
  /\ lastChainHeight' = lastChainHeight + 1
  /\ lastHeader' = lastChainHeight + 1
  /\ errGetChainHeight' = FALSE
  /\ UNCHANGED <<votePeriod, subscriber, initialHeight, ctxVars, lockVars, ratesStr, aggVars, tickVars>>

\* ChainHeight.subscribe, a header event: updateChainHeight(header.Height, nil).
NewBlockHeader ==
  /\ subscriber = "running"
  /\ lastChainHeight < MaxHeight
  /\ lastChainHeight' = lastChainHeight + 1
  /\ lastHeader' = lastChainHeight + 1
  /\ errGetChainHeight' = FALSE
  /\ UNCHANGED <<votePeriod, subscriber, initialHeight, ctxVars, lockVars, ratesStr, aggVars, tickVars>>

\* ChainHeight.subscribe, an event that is no header:
\* updateChainHeight(ch.lastChainHeight, errParseEventDataNewBlockHeader).
HeaderParseError ==
  /\ subscriber = "running"
  /\ ~errGetChainHeight
  /\ errGetChainHeight' = TRUE
  /\ UNCHANGED <<lastChainHeight, votePeriod, sideVars, tickVars>>

\* ChainHeight.subscribe on ctx.Done: return, and the deferred Unsubscribe,
\* whose error is stored with the height kept.
SubscriberExit ==
  /\ subscriber = "running"
  /\ ctxDone
  /\ subscriber' = "done"
  /\ \E unsubscribeOk \in BOOLEAN :
       errGetChainHeight' = IF unsubscribeOk THEN errGetChainHeight ELSE TRUE
  /\ UNCHANGED <<lastChainHeight, votePeriod, initialHeight, lastHeader, ctxVars,
                 lockVars, ratesStr, aggVars, tickVars>>

\* The root context is cancelled (a signal to the process).
Cancel ==
  /\ ~ctxDone
  /\ ctxDone' = TRUE
  /\ UNCHANGED <<chainVars, trackerVars, closerClosed, lockVars, ratesStr, aggVars, tickVars>>

\* ------------------------------------------------------------ the messages

\* MsgAggregateExchangeRatePrevote: the hash of the tick's salt and rates.
PrevoteMsg(salt, exchangeRatesStr) ==
  [kind |-> "prevote", hash |-> GetAggregateVoteHash(salt, exchangeRatesStr),
   salt |-> "", exchangeRates |-> <<>>]

\* VoteMsg revealing the salt and rates of the revealing tick itself.
VoteMsgFresh(salt, exchangeRatesStr) ==
  [kind |-> "vote", hash |-> Nil, salt |-> salt, exchangeRates |-> exchangeRatesStr]

\* MsgAggregateExchangeRateVote built in a tick whose own salt and rates are
\* the arguments: it reveals what previousPrevote holds.
VoteMsg(salt, exchangeRatesStr) ==
  [kind |-> "vote", hash |-> Nil,
   salt |-> previousPrevote[1].Salt, exchangeRates |-> previousPrevote[1].ExchangeRates]

\* One broadcastTx attempt ends in one of these:
\*   "ok"             mined, code 0;
\*   "temporary"      an error the next block may cure: account or tx not
\*                    found, tx already in the mempool, sequence mismatch;
\*   "unrecoverable"  any other non-zero code, from CheckTx
\*                    (handleBroadcastResult) or from the mined tx.
AttemptResults == {"ok", "temporary", "unrecoverable"}

\* broadcastTx and the checks BroadcastTx makes on what it returns: is the
\* attempt an error (err != nil, or resp.Code != 0)?
AttemptFailed(result) == result # "ok"

\* AfterAttempt giving up at once on an unrecoverable code.
AfterAttemptFailsFast(result) ==
  IF result = "ok" THEN "success"
  ELSE IF result = "unrecoverable" THEN "fail"
  ELSE "retry"

\* BroadcastTx after an attempt: "success" returns nil, "retry" sleeps and
\* continues the loop, "fail" returns the error.
AfterAttempt(result) == IF AttemptFailed(result) THEN "retry" ELSE "success"

\* ------------------------------------------------------------ the tick loop

\* Return that ends Start's loop when executeTick returned an error.
ReturnStops(out, blockHeight) ==
  /\ pc' = IF out \in {"skip", "miss", "prevoted", "voted"} THEN "sleep" ELSE "stopped"
  /\ outcome' = out
  /\ tk' = [NoTick EXCEPT !.blockHeight = blockHeight]
  /\ bc' = NoBc

\* executeTick returns to Start, which logs its error if any and sleeps: the
\* tick's locals and BroadcastTx's are gone; the height it read is kept for
\* the record.
Return(out, blockHeight) ==
  /\ pc' = "sleep"
  /\ outcome' = out
  /\ tk' = [NoTick EXCEPT !.blockHeight = blockHeight]
  /\ bc' = NoBc

\* TickAbort that also forgets the outstanding prevote.
TickAbortResets(out, blockHeight) ==
  /\ Return(out, blockHeight)
  /\ previousPrevote' = Nil
  /\ previousVotePeriod' = 0
  /\ UNCHANGED histVars

\* executeTick returns an error before the vote step: GetChainHeight failed
\* or gave a height below 1, getParamCache failed, or setPrices failed.
TickAbort(out, blockHeight) ==
  /\ Return(out, blockHeight)
  /\ UNCHANGED <<voteVars, histVars>>

\* executeTick returns at or after checkVotingPeriod without a broadcast and
\* without touching the vote state.
TickReturn(out, blockHeight) ==
  /\ Return(out, blockHeight)
  /\ UNCHANGED <<voteVars, histVars>>

\* checkVotingPeriod found the period missed: reset.
TickMiss(blockHeight) ==
  /\ previousVotePeriod' = 0
  /\ previousPrevote' = Nil
  /\ outstanding' = Nil
  /\ Return("miss", blockHeight)
  /\ UNCHANGED <<lastVotePeriod, votesInPeriod>>

\* executeTick from checkVotingPeriod on, for the height and params it read
\* and the prices it set; prepOk: generateSalt and ValAddressFromBech32 both
\* succeed; clientOk: BroadcastTx can build its client context and factory.
VoteStep(blockHeight, vp, newPrices) ==
  LET cur == CurrentVotePeriod(blockHeight, vp)
      idx == IndexInVotePeriod(blockHeight, vp)
      chk == checkVotingPeriod(cur, vp, idx)
      rates == generateExchangeRatesString(newPrices)
      timeoutHeight == IF previousPrevote = Nil THEN vp * 2 ELSE vp - idx
  IN
  IF chk = "skip" THEN TickReturn("skip", blockHeight)
  ELSE IF chk = "miss" THEN TickMiss(blockHeight)
  ELSE \E prepOk, clientOk \in BOOLEAN :
    IF ~prepOk THEN TickReturn("prepareError", blockHeight)
    ELSE IF NoPriceAvailable(rates) THEN TickReturn("noPrice", blockHeight)
    ELSE IF ~clientOk THEN TickReturn("clientError", blockHeight)
    ELSE \E salt \in Salts :
      /\ pc' = "broadcast"
      /\ outcome' = "none"
      /\ tk' = [blockHeight |-> blockHeight, oracleVotePeriod |-> vp,
                salt |-> salt, exchangeRatesStr |-> rates]
      /\ bc' = [msg |-> Some(IF previousPrevote = Nil THEN PrevoteMsg(salt, rates)
                             ELSE VoteMsg(salt, rates)),
                nextBlockHeight |-> NextBlockHeight(blockHeight),
                timeoutHeight |-> timeoutHeight,
                maxBlockHeight |-> NextBlockHeight(blockHeight) + timeoutHeight,
                lastCheckHeight |-> NextBlockHeight(blockHeight) - 1,
                waitStart |-> 0,
                result |-> "none"]
      /\ UNCHANGED <<voteVars, histVars>>

\* getParamCache that queries the params in every tick.
getParamCacheAlwaysQueries(currentBlockHeight, paramsOk) ==
  IF ~paramsOk THEN [err |-> TRUE, cache |-> paramCache, queried |-> FALSE]
  ELSE [err |-> FALSE, queried |-> TRUE,
        cache |-> Some([bucket |-> currentBlockHeight \div ParamBucket,
                        votePeriod |-> votePeriod])]

\* Oracle.getParamCache; paramsOk: getParams' gRPC query succeeds. It gives
\* the error, the cache as it leaves it (whose params it returns), and
\* whether a query succeeded.
getParamCache(currentBlockHeight, paramsOk) ==
  IF ~IsOutdated(currentBlockHeight) THEN
    [err |-> FALSE, cache |-> paramCache, queried |-> FALSE]
  ELSE IF ~paramsOk THEN [err |-> TRUE, cache |-> paramCache, queried |-> FALSE]
  ELSE [err |-> FALSE, queried |-> TRUE,
        cache |-> Some([bucket |-> currentBlockHeight \div ParamBucket,
                        votePeriod |-> votePeriod])]

\* Start's select with the context live, and Oracle.executeTick up to its
\* BroadcastTx call: read the height, get the params (getParamCache), set the
\* prices (setPrices; pricesOk: it returns no error), then the vote step.
ExecuteTick ==
  /\ pc = "tick"
  /\ ~ctxDone
  /\ UNCHANGED <<chainVars, sideVars>>
  /\ LET blockHeight == lastChainHeight
         sameBucket == paramCache # Nil
                         /\ paramCache[1].bucket = blockHeight \div ParamBucket
     IN
     IF errGetChainHeight \/ blockHeight < 1 THEN
       TickAbort("heightError", 0) /\ UNCHANGED <<paramCache, paramQueries, prices>>
     ELSE \E paramsOk \in BOOLEAN :
       LET oracleParams == getParamCache(blockHeight, paramsOk) IN
       IF oracleParams.err THEN
         TickAbort("paramsError", blockHeight)
           /\ UNCHANGED <<paramCache, paramQueries, prices>>
       ELSE
         /\ paramCache' = oracleParams.cache
         /\ paramQueries' = IF ~oracleParams.queried THEN paramQueries
                            ELSE IF sameBucket THEN 2 ELSE 1
         /\ \E pricesOk \in BOOLEAN :
              IF ~pricesOk THEN
                TickAbort("pricesError", blockHeight) /\ UNCHANGED prices
              ELSE \E computedPrices \in PriceMaps :
                /\ prices' = computedPrices
                /\ VoteStep(blockHeight, oracleParams.cache[1].votePeriod, computedPrices)

\* Start's select with the context done: close the closer, and go round the
\* loop again (the case has no return).
StartCancelled ==
  /\ pc = "tick"
  /\ ctxDone
  /\ closerClosed' = TRUE
  /\ UNCHANGED <<chainVars, trackerVars, ctxDone, lockVars, ratesStr, aggVars, tickVars>>

\* BroadcastError that also clears the vote state, as a successful vote does.
BroadcastErrorClears(out) ==
  /\ Return(out, tk.blockHeight)
  /\ previousPrevote' = Nil
  /\ previousVotePeriod' = 0
  /\ UNCHANGED histVars

\* BroadcastTx returns an error to executeTick, which returns it: the vote
\* state is left as it is.
BroadcastError(out) ==
  /\ Return(out, tk.blockHeight)
  /\ UNCHANGED <<voteVars, histVars>>

\* BroadcastTx whose loop goes on to an attempt when the height read equals
\* lastCheckHeight.
BroadcastPollSameHeight ==
  /\ pc = "broadcast"
  /\ UNCHANGED <<chainVars, sideVars, paramCache, paramQueries, prices>>
  /\ IF errGetChainHeight THEN
       BroadcastError(bc.msg[1].kind \o "HeightError")
     ELSE IF lastChainHeight < bc.lastCheckHeight THEN
       UNCHANGED <<pc, outcome, tk, bc, voteVars, histVars>>
     ELSE IF TimedOut(lastChainHeight, bc.maxBlockHeight) THEN
       BroadcastError(bc.msg[1].kind \o "Timeout")
     ELSE
       /\ bc' = [bc EXCEPT !.lastCheckHeight = lastChainHeight, !.waitStart = 0,
                           !.result = "none"]
       /\ pc' = "inTx"
       /\ UNCHANGED <<outcome, tk, voteVars, histVars>>

\* BroadcastTx, one pass of its loop up to the broadcastTx call.
BroadcastPoll ==
  /\ pc = "broadcast"
  /\ UNCHANGED <<chainVars, sideVars, paramCache, paramQueries, prices>>
  /\ IF errGetChainHeight THEN
       BroadcastError(bc.msg[1].kind \o "HeightError")
     ELSE IF lastChainHeight <= bc.lastCheckHeight THEN
       UNCHANGED <<pc, outcome, tk, bc, voteVars, histVars>>
     ELSE IF TimedOut(lastChainHeight, bc.maxBlockHeight) THEN
       BroadcastError(bc.msg[1].kind \o "Timeout")
     ELSE
       /\ bc' = [bc EXCEPT !.lastCheckHeight = lastChainHeight, !.waitStart = 0,
                           !.result = "none"]
       /\ pc' = "inTx"
       /\ UNCHANGED <<outcome, tk, voteVars, histVars>>

\* executeTick after BroadcastTx returned nil for the vote: clear the state.
VoteBroadcast ==
  LET cur == CurrentVotePeriod(tk.blockHeight, tk.oracleVotePeriod) IN
  /\ previousPrevote' = Nil
  /\ previousVotePeriod' = 0
  /\ Return("voted", tk.blockHeight)
  /\ outstanding' = Nil
  /\ lastVotePeriod' = cur
  /\ votesInPeriod' = IF cur = lastVotePeriod
                      THEN (IF votesInPeriod < 2 THEN votesInPeriod + 1 ELSE 2)
                      ELSE 1

\* BroadcastTx, the broadcastTx call has returned with this result.
AttemptReturns(result) ==
  IF AfterAttempt(result) = "retry" THEN
    /\ bc' = [bc EXCEPT !.result = result, !.waitStart = 0]
    /\ pc' = "broadcast"
    /\ UNCHANGED <<outcome, tk, voteVars, histVars>>
  ELSE IF AfterAttempt(result) = "fail" THEN
    BroadcastError(bc.msg[1].kind \o "Failed")
  ELSE IF bc.msg[1].kind = "vote" THEN
    VoteBroadcast
  ELSE
    /\ pc' = "recorded"
    /\ outstanding' = Some(bc.msg[1].hash)
    /\ bc' = [bc EXCEPT !.result = result, !.waitStart = 0]
    /\ UNCHANGED <<outcome, tk, voteVars, lastVotePeriod, votesInPeriod>>

\* broadcastTx up to handleBroadcastResult: build, sign and send the tx. It
\* returns an error (temporary, or CheckTx's non-zero code), or the tx is in
\* the mempool and waitForTx begins.
BroadcastAttempt ==
  /\ pc = "inTx"
  /\ UNCHANGED <<chainVars, sideVars, paramCache, paramQueries, prices>>
  /\ \E sent \in {"sent", "temporary", "unrecoverable"} :
       IF sent = "sent" THEN
         /\ pc' = "waitTx"
         /\ UNCHANGED <<outcome, tk, bc, voteVars, histVars>>
       ELSE AttemptReturns(sent)

\* waitForTx, one pass of its loop, entered at once or when waitForBlockHeight
\* returns (a block above waitStart is there, or the context is done): the
\* tx is found (mined with code 0 or not), the query fails, or the tx is not
\* found and waitForNextBlock reads the height to wait above.
WaitForTx ==
  /\ pc = "waitTx"
  /\ bc.waitStart = 0 \/ lastChainHeight > bc.waitStart \/ ctxDone
  /\ UNCHANGED <<chainVars, sideVars, paramCache, paramQueries, prices>>
  /\ IF bc.waitStart # 0 /\ lastChainHeight <= bc.waitStart THEN
       AttemptReturns("temporary")
     ELSE \E found \in AttemptResults \cup {"notFound"} :
       IF found = "notFound" THEN
         /\ bc' = [bc EXCEPT !.waitStart = lastChainHeight]
         /\ UNCHANGED <<pc, outcome, tk, voteVars, histVars>>
       ELSE AttemptReturns(found)

\* executeTick after BroadcastTx returned nil for the prevote: read the
\* height again and record the prevote.
RecordPrevote ==
  /\ pc = "recorded"
  /\ UNCHANGED <<chainVars, sideVars, paramCache, paramQueries, prices, histVars>>
  /\ IF errGetChainHeight THEN
       Return("recordHeightError", tk.blockHeight) /\ UNCHANGED voteVars
     ELSE
       /\ previousVotePeriod' = lastChainHeight \div tk.oracleVotePeriod
       /\ previousPrevote' = Some([Salt |-> tk.salt,
                                   ExchangeRates |-> tk.exchangeRatesStr,
                                   SubmitBlockHeight |-> lastChainHeight])
       /\ Return("prevoted", tk.blockHeight)

\* Oracle.Start: the sleep is over, the next pass of the loop begins.
Wake ==
  /\ pc = "sleep"
  /\ pc' = "tick"
  /\ tk' = NoTick
  /\ bc' = NoBc
  /\ outcome' = "none"
  /\ UNCHANGED <<chainVars, sideVars, paramCache, paramQueries, prices, voteVars, histVars>>

\* The feeder while its root context is live.
Next ==
  \/ NewBlockHeader
  \/ HeaderParseError
  \/ ExecuteTick
  \/ BroadcastPoll
  \/ BroadcastAttempt
  \/ WaitForTx
  \/ RecordPrevote
  \/ Wake

Spec == Init /\ [][Next]_vars

\* The feeder with the cancellation of its root context.
CancelNext ==
  \/ NewBlockHeader
  \/ HeaderParseError
  \/ SubscriberExit
  \/ Cancel
  \/ ExecuteTick
  \/ StartCancelled
  \/ BroadcastPoll
  \/ BroadcastAttempt
  \/ WaitForTx
  \/ RecordPrevote
  \/ Wake

CancelSpec == Init /\ [][CancelNext]_vars

\* ------------------------------------------------- prices and their readers

\* GetPrices: pricesMutex.RLock().
GetPricesRLock ==
  /\ getp.pc = "idle"
  /\ ~pricesMutex.writer
  /\ pricesMutex' = [pricesMutex EXCEPT !.readers = @ + 1]
  /\ getp' = [NoGetPrices EXCEPT !.pc = "range"]
  /\ UNCHANGED <<chainVars, trackerVars, ctxVars, setp, ratesStr, aggVars, tickVars>>

\* GetPrices: the range statement evaluates o.prices, the map to go through.
GetPricesRange ==
  /\ getp.pc = "range"
  /\ getp' = [getp EXCEPT !.pc = "copy", !.m = prices, !.todo = DOMAIN prices]
  /\ UNCHANGED <<chainVars, trackerVars, ctxVars, pricesMutex, setp, ratesStr, aggVars, tickVars>>

\* GetPrices: one pass of the range loop, prices[k] = v.
GetPricesCopy ==
  /\ getp.pc = "copy"
  /\ \E k \in getp.todo :
       getp' = [getp EXCEPT !.todo = @ \ {k},
                            !.prices = [b \in DOMAIN @ \cup {k} |->
                                          IF b = k THEN getp.m[k] ELSE @[b]]]
  /\ UNCHANGED <<chainVars, trackerVars, ctxVars, pricesMutex, setp, ratesStr, aggVars, tickVars>>

\* GetPrices: the loop is over, return prices; the deferred RUnlock runs.
GetPricesReturn ==
  /\ getp.pc = "copy"
  /\ getp.todo = {}
  /\ getp' = [getp EXCEPT !.pc = "returned"]
  /\ pricesMutex' = [pricesMutex EXCEPT !.readers = @ - 1]
  /\ UNCHANGED <<chainVars, trackerVars, ctxVars, setp, ratesStr, aggVars, tickVars>>

\* The caller is done with the map GetPrices returned.
GetPricesDone ==
  /\ getp.pc = "returned"
  /\ getp' = NoGetPrices
  /\ UNCHANGED <<chainVars, trackerVars, ctxVars, pricesMutex, setp, ratesStr, aggVars, tickVars>>

\* setPrices: GetComputedPrices has returned a fresh map.
SetPricesComputed ==
  /\ setp.pc = "idle"
  /\ \E computedPrices \in PairPriceMaps :
       setp' = [pc |-> "lock", computedPrices |-> computedPrices]
  /\ UNCHANGED <<chainVars, trackerVars, ctxVars, pricesMutex, getp, ratesStr, aggVars, tickVars>>

\* CanLock that does not wait for the readers.
CanLockOverReaders == ~pricesMutex.writer

\* sync.RWMutex.Lock is granted: no writer and no reader holds the mutex.
CanLock == ~pricesMutex.writer /\ pricesMutex.readers = 0

\* setPrices: o.pricesMutex.Lock().
SetPricesLock ==
  /\ setp.pc = "lock"
  /\ CanLock
  /\ pricesMutex' = [pricesMutex EXCEPT !.writer = TRUE]
  /\ setp' = [setp EXCEPT !.pc = "assign"]
  /\ UNCHANGED <<chainVars, trackerVars, ctxVars, getp, ratesStr, aggVars, tickVars>>

\* setPrices: o.prices = computedPrices.
SetPricesAssign ==
  /\ setp.pc = "assign"
  /\ prices' = setp.computedPrices
  /\ setp' = [setp EXCEPT !.pc = "unlock"]
  /\ UNCHANGED <<chainVars, trackerVars, ctxVars, pricesMutex, getp, ratesStr, aggVars,
                 paramCache, paramQueries, voteVars, pc, tk, bc, outcome, histVars>>

\* setPrices: o.pricesMutex.Unlock(), return nil.
SetPricesUnlock ==
  /\ setp.pc = "unlock"
  /\ pricesMutex' = [pricesMutex EXCEPT !.writer = FALSE]
  /\ setp' = NoSetPrices
  /\ UNCHANGED <<chainVars, trackerVars, ctxVars, getp, ratesStr, aggVars, tickVars>>

\* The tick task publishing prices tick after tick, and one GetPrices caller
\* after the other.
PricesNext ==
  \/ SetPricesComputed
  \/ SetPricesLock
  \/ SetPricesAssign
  \/ SetPricesUnlock
  \/ GetPricesRLock
  \/ GetPricesRange
  \/ GetPricesCopy
  \/ GetPricesReturn
  \/ GetPricesDone

PricesSpec == Init /\ [][PricesNext]_vars

\* --------------------------------------------- the tracker's construction

\* The heights rpcclient.GetChainHeight may hand to newChainHeight.
InitialHeights == (0 - 1)..MaxHeight

\* RejectInitial that lets the height 0 through.
RejectInitialNegative(h) == h < 0

\* newChainHeight: initialHeight < 1.
RejectInitial(h) == h < 1

\* newChainHeight(ctx, rpcClient, logger, h); startOk: rpcClient runs or its
\* Start succeeds; subscribeOk: rpcClient.Subscribe succeeds. On success the
\* tracker holds h with no error and the subscriber task is started.
NewChainHeight ==
  /\ subscriber = "none"
  /\ \E h \in InitialHeights :
       /\ initialHeight' = h
       /\ IF RejectInitial(h) THEN
            subscriber' = "rejected" /\ UNCHANGED <<lastChainHeight, errGetChainHeight>>
          ELSE \E startOk, subscribeOk \in BOOLEAN :
            IF ~startOk THEN
              subscriber' = "startFailed" /\ UNCHANGED <<lastChainHeight, errGetChainHeight>>
            ELSE IF ~subscribeOk THEN
              subscriber' = "subscribeFailed"
                /\ UNCHANGED <<lastChainHeight, errGetChainHeight>>
            ELSE
              /\ subscriber' = "running"
              /\ lastChainHeight' = h
              /\ errGetChainHeight' = FALSE
  /\ UNCHANGED <<votePeriod, lastHeader, ctxVars, lockVars, ratesStr, aggVars, tickVars>>

\* Before NewOracleClient calls newChainHeight: no tracker yet.
TrackerInit ==
  /\ lastChainHeight = 0
  /\ errGetChainHeight = FALSE
  /\ votePeriod \in VotePeriods
  /\ subscriber = "none"
  /\ initialHeight = 0
  /\ lastHeader = 0
  /\ ctxDone = FALSE
  /\ closerClosed = FALSE
  /\ paramCache = Nil
  /\ paramQueries = 0
  /\ prices = <<>>
  /\ pricesMutex = Unlocked
  /\ setp = NoSetPrices
  /\ getp = NoGetPrices
  /\ ratesStr = Nil
  /\ previousPrevote = Nil
  /\ previousVotePeriod = 0
  /\ pc = "tick"
  /\ tk = NoTick
  /\ bc = NoBc
  /\ outcome = "none"
  /\ outstanding = Nil
  /\ lastVotePeriod = -1
  /\ votesInPeriod = 0
  /\ AggIdle

\* The tracker from its construction to the end of its subscriber task.
TrackerNext ==
  \/ NewChainHeight
  \/ NewBlockHeader
  \/ HeaderParseError
  \/ Cancel
  \/ SubscriberExit

\* The subscriber's select takes a ready case at random: with the context
\* done, ctx.Done is ready for good and is taken in the end.
TrackerSpec == TrackerInit /\ [][TrackerNext]_vars /\ WF_vars(SubscriberExit)

\* ------------------------------------------ the exchange-rates string alone

\* A price map of several bases, whose string has not been generated yet.
RatesInit ==
  /\ lastChainHeight = 1
  /\ errGetChainHeight = FALSE
  /\ votePeriod = 1
  /\ subscriber = "running"
  /\ initialHeight = 1
  /\ lastHeader = 0
  /\ ctxDone = FALSE
  /\ closerClosed = FALSE
  /\ paramCache = Nil
  /\ paramQueries = 0
  /\ prices \in TestPriceMaps
  /\ pricesMutex = Unlocked
  /\ setp = NoSetPrices
  /\ getp = NoGetPrices
  /\ ratesStr = Nil
  /\ previousPrevote = Nil
  /\ previousVotePeriod = 0
  /\ pc = "tick"
  /\ tk = NoTick
  /\ bc = NoBc
  /\ outcome = "none"
  /\ outstanding = Nil
  /\ lastVotePeriod = -1
  /\ votesInPeriod = 0
  /\ AggIdle

\* generateExchangeRatesString(o.prices), the range visiting the map in any
\* order; what it returns is kept: the string, and whether the error is
\* errNoPriceAvailable.
GenerateRates ==
  /\ ratesStr = Nil
  /\ IF DOMAIN prices = {} THEN
       ratesStr' = Some([str |-> <<>>, err |-> TRUE])
     ELSE \E order \in RangeOrders(DOMAIN prices) :
       ratesStr' = Some([str |-> ExchangeRatesIn(prices, order), err |-> FALSE])
  /\ UNCHANGED <<chainVars, trackerVars, ctxVars, lockVars, tickVars, aggVars>>

RatesNext == GenerateRates

RatesSpec == RatesInit /\ [][RatesNext]_vars


\* ------------------------------------------------------- sdk.Dec arithmetic

\* A Dec d stands for the number d / DecUnit.  Mul and Quo round the way
\* sdk.Dec does: to the nearest representable number, a tie to the even one.
Abs(x) == IF x < 0 THEN 0 - x ELSE x

NewDec(i) == i * DecUnit

\* quo + rem/DecUnit rounded: half down below, half up above, half to even.
RoundHalfEven(quo, rem) ==
  IF 2 * rem < DecUnit THEN quo
  ELSE IF 2 * rem > DecUnit THEN quo + 1
  ELSE IF quo % 2 = 0 THEN quo ELSE quo + 1

RECURSIVE MulDiv(_, _, _)
\* <<(a * b) \div m, (a * b) % m>> for a, b >= 0 and m > 0, by the decimal
\* digits of b: the big.Int product itself is never formed, so that nothing
\* here exceeds the width of the model's integers.
MulDiv(a, b, m) ==
  IF b = 0 THEN <<0, 0>>
  ELSE LET h == MulDiv(a, b \div 10, m)
           t == h[2] * 10 + a * (b % 10)
       IN <<h[1] * 10 + (t \div m), t % m>>

Mul(a, b) ==
  LET m == MulDiv(Abs(a), Abs(b), DecUnit)
      r == RoundHalfEven(m[1], m[2])
  IN IF (a < 0) # (b < 0) THEN 0 - r ELSE r

\* a * 10^(2*precision) / b truncated, then chopped and rounded: the digits
\* beyond the truncation are lost before the tie is decided.
Quo(a, b) ==
  LET n == MulDiv(Abs(a), DecUnit, Abs(b))
      f == MulDiv(n[2], DecUnit, Abs(b))
      r == RoundHalfEven(n[1], f[1])
  IN IF (a < 0) # (b < 0) THEN 0 - r ELSE r

QuoInt64(a, i) == IF a < 0 THEN 0 - (Abs(a) \div i) ELSE a \div i

\* ------------------------------------------------------------------- VWAP

Providers == {"binance", "kraken", "osmosis"}
AggBases == {"ATOM", "OSMO"}

RECURSIVE SumOver(_, _)
\* The sum of f over S; Dec addition is exact, so the range's order is immaterial.
SumOver(f, S) ==
  IF S = {} THEN 0
  ELSE LET x == CHOOSE y \in S : TRUE IN f[x] + SumOver(f, S \ {x})

\* Go maps of maps: the bases any provider holds, the providers holding a base.
BasesOf(m) == UNION {DOMAIN m[p] : p \in DOMAIN m}
Pricing(m, base) == {p \in DOMAIN m : base \in DOMAIN m[p]}

vwap(weightedPrices, volumeSum) ==
  [base \in {b \in DOMAIN weightedPrices : volumeSum[b] # 0} |->
     Quo(weightedPrices[base], volumeSum[base])]

\* The weighted sum forgets the volume.
ComputeVWAPUnweighted(tickers) ==
  LET weightedPrices == [base \in BasesOf(tickers) |->
        SumOver([p \in Pricing(tickers, base) |-> tickers[p][base].Price],
                Pricing(tickers, base))]
      volumeSum == [base \in BasesOf(tickers) |->
        SumOver([p \in Pricing(tickers, base) |-> tickers[p][base].Volume],
                Pricing(tickers, base))]
  IN vwap(weightedPrices, volumeSum)

ComputeVWAP(tickers) ==
  LET weightedPrices == [base \in BasesOf(tickers) |->
        SumOver([p \in Pricing(tickers, base) |->
                   Mul(tickers[p][base].Price, tickers[p][base].Volume)],
                Pricing(tickers, base))]
      volumeSum == [base \in BasesOf(tickers) |->
        SumOver([p \in Pricing(tickers, base) |-> tickers[p][base].Volume],
                Pricing(tickers, base))]
  IN vwap(weightedPrices, volumeSum)

\* The feeder at rest: what the aggregation functions neither read nor write.
QuietFeeder ==
  /\ lastChainHeight = 1
  /\ errGetChainHeight = FALSE
  /\ votePeriod = 1
  /\ subscriber = "running"
  /\ initialHeight = 1
  /\ lastHeader = 0
  /\ ctxDone = FALSE
  /\ closerClosed = FALSE
  /\ paramCache = Nil
  /\ paramQueries = 0
  /\ prices = <<>>
  /\ pricesMutex = Unlocked
  /\ setp = NoSetPrices
  /\ getp = NoGetPrices
  /\ ratesStr = Nil
  /\ previousPrevote = Nil
  /\ previousVotePeriod = 0
  /\ pc = "tick"
  /\ tk = NoTick
  /\ bc = NoBc
  /\ outcome = "none"
  /\ outstanding = Nil
  /\ lastVotePeriod = -1
  /\ votesInPeriod = 0

feederVars == <<chainVars, trackerVars, ctxVars, lockVars, ratesStr, tickVars>>
quietVars == <<feederVars, provVars, healthVars>>

\* Ticker prices 1.000001 and 2, volumes 0, 0.5 and 2.
TickerPrices == {DecUnit + 1, 2 * DecUnit}
TickerVolumes == {0, DecUnit \div 2, 2 * DecUnit}
TickerPriceSet == [Price : TickerPrices, Volume : TickerVolumes]

\* All maps from some of the keys K to values in V.
PartialMaps(K, V) == UNION {[D -> V] : D \in SUBSET K}

TickerInputs == [Providers -> PartialMaps(AggBases, TickerPriceSet)]

VwapInit ==
  /\ QuietFeeder
  /\ NoProvider
  /\ NoHealth
  /\ providerPrices \in TickerInputs
  /\ providerCandles = <<>>
  /\ deviations = <<>>
  /\ agg = Nil
  /\ fetch = <<>>
  /\ providerPairs = <<>>

ComputeVWAPCall ==
  /\ agg = Nil
  /\ agg' = Some([prices |-> ComputeVWAP(providerPrices)])
  /\ UNCHANGED <<quietVars, providerPrices, providerCandles, deviations, fetch, providerPairs>>

VwapNext == ComputeVWAPCall

VwapSpec == VwapInit /\ [][VwapNext]_vars

\* ------------------------------------------------------------------ TVWAP

\* Time is counted in minutes; timestamps are read against the clock reading
\* now, which ComputeTVWAP takes once.
now == 10
tvwapCandlePeriod == 5
timePeriod == now - tvwapCandlePeriod

OneDec == NewDec(1)
minimumTimeWeight == DecUnit \div 5
minimumCandleVolume == DecUnit \div 10000

RECURSIVE MinTimeStamp(_)
\* cp[0].TimeStamp once the candles are sorted old -> new.
MinTimeStamp(cp) ==
  IF Len(cp) = 1 THEN cp[1].TimeStamp
  ELSE LET m == MinTimeStamp(Tail(cp))
       IN IF cp[1].TimeStamp < m THEN cp[1].TimeStamp ELSE m

\* The candle's volume, a volume of zero replaced by the minimum.
CandleVolume(candle) ==
  IF candle.Volume = 0 THEN minimumCandleVolume ELSE candle.Volume

\* The time weight forgets the candle's age.
TimeWeightFlat(candle, period) ==
  LET weightUnit == Quo(OneDec - minimumTimeWeight, period)
  IN Mul(weightUnit, period + minimumTimeWeight)

\* The time weight as the expression is parenthesised:
\* weightUnit.Mul(period.Sub(timeDiff).Add(minimumTimeWeight)).
TimeWeight(candle, period) ==
  LET weightUnit == Quo(OneDec - minimumTimeWeight, period)
      timeDiff == NewDec(now - candle.TimeStamp)
  IN Mul(weightUnit, (period - timeDiff) + minimumTimeWeight)

\* The volume the candle enters the sums with.
EffectiveVolume(candle, period) ==
  Mul(CandleVolume(candle), TimeWeight(candle, period))

InWindow(candle) == timePeriod < candle.TimeStamp

\* The (provider, base) lists that are not empty.
CandleLists(candles) ==
  {pb \in Providers \X AggBases :
     /\ pb[1] \in DOMAIN candles
     /\ pb[2] \in DOMAIN candles[pb[1]]
     /\ Len(candles[pb[1]][pb[2]]) > 0}

Period(cp) == NewDec(now - MinTimeStamp(cp))

\* One list's share of volumeSum[base] and of weightedPrices[base].
ListVolume(cp) ==
  SumOver([i \in {j \in 1..Len(cp) : InWindow(cp[j])} |->
             EffectiveVolume(cp[i], Period(cp))],
          {j \in 1..Len(cp) : InWindow(cp[j])})
ListWeighted(cp) ==
  SumOver([i \in {j \in 1..Len(cp) : InWindow(cp[j])} |->
             Mul(cp[i].Price, EffectiveVolume(cp[i], Period(cp)))],
          {j \in 1..Len(cp) : InWindow(cp[j])})

\* ComputeTVWAP's two results: the prices (<<>> standing for nil) and whether
\* the error is "unable to divide by zero".
ComputeTVWAP(candles) ==
  LET lists == CandleLists(candles)
      bases == {pb[2] : pb \in lists}
      of(base) == {pb \in lists : pb[2] = base}
      weightedPrices == [base \in bases |->
        SumOver([pb \in of(base) |-> ListWeighted(candles[pb[1]][pb[2]])], of(base))]
      volumeSum == [base \in bases |->
        SumOver([pb \in of(base) |-> ListVolume(candles[pb[1]][pb[2]])], of(base))]
  IN IF \E pb \in lists : Period(candles[pb[1]][pb[2]]) = 0
     THEN [prices |-> <<>>, err |-> TRUE]
     ELSE [prices |-> vwap(weightedPrices, volumeSum), err |-> FALSE]

\* Candle prices 1 and 2; volumes 0, the smallest Dec and 1; stamped at the
\* window's edge, one and three minutes inside it, and at now.
CandlePrices == {NewDec(1), NewDec(2)}
CandleVolumes == {0, 1, NewDec(1)}
TimeStamps == {timePeriod, timePeriod + 1, now - 2, now}
CandlePriceSet == [Price : CandlePrices, Volume : CandleVolumes, TimeStamp : TimeStamps]

SeqsUpTo(S, n) == UNION {[1..k -> S] : k \in 0..n}

\* binance holds up to two ATOM candles and perhaps one OSMO candle, expired
\* or fresh; kraken holds nothing or up to one ATOM candle.
OsmoLists ==
  {<<[Price |-> NewDec(1), Volume |-> NewDec(1), TimeStamp |-> ts]>> :
     ts \in {timePeriod, now - 2}}
BinanceCandles ==
  {("ATOM" :> a) : a \in SeqsUpTo(CandlePriceSet, 2)}
    \cup {("ATOM" :> a) @@ ("OSMO" :> o) : a \in SeqsUpTo(CandlePriceSet, 2), o \in OsmoLists}
KrakenCandles == {<<>>} \cup {("ATOM" :> a) : a \in SeqsUpTo(CandlePriceSet, 1)}
CandleInputs ==
  {("binance" :> b) @@ ("kraken" :> k) : b \in BinanceCandles, k \in KrakenCandles}

TvwapInit ==
  /\ QuietFeeder
  /\ NoProvider
  /\ NoHealth
  /\ providerPrices = <<>>
  /\ providerCandles \in CandleInputs
  /\ deviations = <<>>
  /\ agg = Nil
  /\ fetch = <<>>
  /\ providerPairs = <<>>

ComputeTVWAPCall ==
  /\ agg = Nil
  /\ agg' = Some(ComputeTVWAP(providerCandles))
  /\ UNCHANGED <<quietVars, providerPrices, providerCandles, deviations, fetch, providerPairs>>

TvwapNext == ComputeTVWAPCall

TvwapSpec == TvwapInit /\ [][TvwapNext]_vars

\* ---------------------------------------------------- the deviation filters

RECURSIVE SqrtBelow(_, _, _)
\* The largest s in lo..hi with s * s <= x * DecUnit.
SqrtBelow(x, lo, hi) ==
  IF lo >= hi THEN lo
  ELSE LET mid == (lo + hi + 1) \div 2
       IN IF MulDiv(mid, mid, DecUnit)[1] <= x
          THEN SqrtBelow(x, mid, hi) ELSE SqrtBelow(x, lo, mid - 1)

\* Dec.ApproxSqrt: Newton's iteration down to the smallest Dec; the root is
\* taken here as the Dec just below or at the exact root.
ApproxSqrt(x) == SqrtBelow(x, 0, 4 * DecUnit)

\* The prices given for an asset, one per provider that prices it.
\* ComputeStandardDeviationsAndMeans: an asset with fewer than 3 prices is in
\* neither map.
ComputeStandardDeviationsAndMeans(priceMap) ==
  LET assets == {a \in BasesOf(priceMap) : Cardinality(Pricing(priceMap, a)) >= 3}
      numPrices(a) == Cardinality(Pricing(priceMap, a))
      mean(a) == QuoInt64(SumOver([p \in Pricing(priceMap, a) |-> priceMap[p][a]],
                                  Pricing(priceMap, a)), numPrices(a))
      varianceSum(a) ==
        SumOver([p \in Pricing(priceMap, a) |->
                   Mul(priceMap[p][a] - mean(a), priceMap[p][a] - mean(a))],
                Pricing(priceMap, a))
  IN [deviations |-> [a \in assets |-> ApproxSqrt(QuoInt64(varianceSum(a), numPrices(a)))],
      means |-> [a \in assets |-> mean(a)]]

defaultDeviationThreshold == NewDec(1)

isBetween(p, mean, margin) == p >= mean - margin /\ p <= mean + margin

\* t := the threshold configured for the base, else the default.
Threshold(deviationThresholds, base) ==
  IF base \in DOMAIN deviationThresholds THEN deviationThresholds[base]
  ELSE defaultDeviationThreshold

\* The acceptance test both filters apply to a provider's price of a base.
Accepted(sd, deviationThresholds, base, price) ==
  \/ base \notin DOMAIN sd.deviations
  \/ isBetween(price, sd.means[base],
               Mul(sd.deviations[base], Threshold(deviationThresholds, base)))

\* m without the keys whose value is the empty map: the filters create a
\* provider's entry only when they keep something of it.
Kept(m) == [p \in {q \in DOMAIN m : DOMAIN m[q] # {}} |-> m[p]]

FilterTickerDeviations(tickers, deviationThresholds) ==
  LET priceMap == [p \in DOMAIN tickers |->
                     [base \in DOMAIN tickers[p] |-> tickers[p][base].Price]]
      sd == ComputeStandardDeviationsAndMeans(priceMap)
  IN Kept([p \in DOMAIN tickers |->
             [base \in {b \in DOMAIN tickers[p] :
                          Accepted(sd, deviationThresholds, b, tickers[p][b].Price)}
                |-> tickers[p][base]]])

\* The choices of the base each provider's range over its candles ends with:
\* candlePrices[providerName] is assigned anew for every base, so only the
\* base visited last is left in it when the range is over.
LastVisited(candles) ==
  {l \in [{p \in DOMAIN candles : DOMAIN candles[p] # {}} -> AggBases] :
     \A p \in DOMAIN l : l[p] \in DOMAIN candles[p]}

\* filterCandleDeviations, its ranges over each provider's bases ending with
\* last[provider].  The result is the filtered candles and whether ComputeTVWAP
\* returned its error.
filterCandleDeviations(candles, deviationThresholds, last) ==
  LET single(p) == ComputeTVWAP((p :> (last[p] :> candles[p][last[p]])))
      tvwaps == Kept([p \in DOMAIN last |-> single(p).prices])
      sd == ComputeStandardDeviationsAndMeans(tvwaps)
  IN IF \E p \in DOMAIN last : single(p).err
     THEN [candles |-> <<>>, err |-> TRUE]
     ELSE [candles |->
             Kept([p \in DOMAIN tvwaps |->
                     [base \in {b \in DOMAIN tvwaps[p] :
                                  Accepted(sd, deviationThresholds, b, tvwaps[p][b])}
                        |-> candles[p][base]]]),
           err |-> FALSE]

\* What the providers quote: each an ATOM price of 1, 2 or 3 or none, and
\* binance perhaps OSMO at 1 as well.
QuotePrices == {NewDec(1), NewDec(2), NewDec(3)}
Quotes ==
  {q \in [Providers -> PartialMaps(AggBases, QuotePrices)] :
     /\ \A p \in Providers \ {"binance"} : "OSMO" \notin DOMAIN q[p]
     /\ "OSMO" \in DOMAIN q["binance"] => q["binance"]["OSMO"] = NewDec(1)}

\* The snapshot of the quotes q: a ticker of volume 1 and one candle of volume
\* 1 stamped three minutes inside the window.
TickersOf(q) ==
  [p \in DOMAIN q |-> [base \in DOMAIN q[p] |->
     [Price |-> q[p][base], Volume |-> NewDec(1)]]]
CandlesOf(q) ==
  [p \in DOMAIN q |-> [base \in DOMAIN q[p] |->
     <<[Price |-> q[p][base], Volume |-> NewDec(1), TimeStamp |-> now - 2]>>]]

\* Thresholds ParseConfig accepts: none set, or one for ATOM that is not
\* greater than maxDeviationThreshold.
maxDeviationThreshold == NewDec(3)
ThresholdValues == {0 - NewDec(1), NewDec(2), NewDec(3), NewDec(4)}
DeviationMaps ==
  {<<>>} \cup {("ATOM" :> t) : t \in {v \in ThresholdValues : ~(v > maxDeviationThreshold)}}

FilterInit ==
  /\ QuietFeeder
  /\ NoProvider
  /\ NoHealth
  /\ \E q \in Quotes :
       /\ providerPrices = TickersOf(q)
       /\ providerCandles = CandlesOf(q)
  /\ deviations \in DeviationMaps
  /\ agg = Nil
  /\ fetch = <<>>
  /\ providerPairs = <<>>

FilterTickerDeviationsCall ==
  /\ agg = Nil
  /\ agg' = Some([op |-> "FilterTickerDeviations",
                  tickers |-> FilterTickerDeviations(providerPrices, deviations)])
  /\ UNCHANGED <<quietVars, providerPrices, providerCandles, deviations, fetch, providerPairs>>

filterCandleDeviationsCall ==
  /\ agg = Nil
  /\ \E last \in LastVisited(providerCandles) :
       agg' = Some([op |-> "filterCandleDeviations"]
                     @@ filterCandleDeviations(providerCandles, deviations, last))
  /\ UNCHANGED <<quietVars, providerPrices, providerCandles, deviations, fetch, providerPairs>>

FilterNext == FilterTickerDeviationsCall \/ filterCandleDeviationsCall

FilterSpec == FilterInit /\ [][FilterNext]_vars

\* ------------------------------------------------------- conversion to USD

DenomUSD == "USD"

PairsOf(pairs, p) == {pairs[p][i] : i \in 1..Len(pairs[p])}

\* The providers that have the pair asset/USD.
getUSDBasedProviders(asset, pairs) ==
  {p \in DOMAIN pairs : [Base |-> asset, Quote |-> DenomUSD] \in PairsOf(pairs, p)}

\* The quotes other than USD that some pair is quoted in.
RequiredQuotes(pairs) ==
  {pr.Quote : pr \in {x \in UNION {PairsOf(pairs, p) : p \in DOMAIN pairs} :
                        x.Quote # DenomUSD}}

\* What the USD-based providers of the quote hold for the quote itself.
ValidFor(m, pairs, quote) ==
  Kept([p \in DOMAIN m \cap getUSDBasedProviders(quote, pairs) |->
          [base \in DOMAIN m[p] \cap {quote} |-> m[p][base]]])

\* The quote the provider's pair for the base is quoted in, USD if it has no
\* such pair.
QuoteOf(pairs, p, base) ==
  IF p \in DOMAIN pairs /\ \E pr \in PairsOf(pairs, p) : pr.Base = base
  THEN (CHOOSE pr \in PairsOf(pairs, p) : pr.Base = base).Quote
  ELSE DenomUSD

\* The conversion uses the observation's own provider only.
OwnProviderOnly(m, p) == [q \in DOMAIN m \cap {p} |-> m[q]]

\* The observations the rate of a provider's conversion is computed from: those
\* of every provider.
RateSource(m, p) == m

\* ConvertCandlesToUSD: the rate of a quote is the TVWAP of the quote's candles
\* of its USD-based providers; the candles of a pair quoted in it have their
\* prices multiplied by the rate.  An error if a quote has no rate.
ConvertCandlesToUSD(candles, pairs) ==
  LET rate(p, q) == ComputeTVWAP(ValidFor(RateSource(candles, p), pairs, q))
      needs == {t \in CandleLists(candles) \X RequiredQuotes(pairs) :
                  QuoteOf(pairs, t[1][1], t[1][2]) = t[2]}
      conv(p, base) ==
        LET q == QuoteOf(pairs, p, base)
        IN IF q = DenomUSD THEN candles[p][base]
           ELSE [i \in 1..Len(candles[p][base]) |->
                   [candles[p][base][i] EXCEPT
                      !.Price = Mul(@, rate(p, q).prices[q])]]
  IN IF \E t \in needs : rate(t[1][1], t[2]).err \/ t[2] \notin DOMAIN rate(t[1][1], t[2]).prices
     THEN [candles |-> <<>>, err |-> TRUE]
     ELSE [candles |-> [p \in DOMAIN candles |->
                          [base \in DOMAIN candles[p] |-> conv(p, base)]],
           err |-> FALSE]

\* ConvertTickersToUSD: the same with the VWAP of the quote's tickers.
ConvertTickersToUSD(tickers, pairs) ==
  LET rate(p, q) == ComputeVWAP(ValidFor(RateSource(tickers, p), pairs, q))
      needs == {t \in {pb \in Providers \X AggBases :
                         pb[1] \in DOMAIN tickers /\ pb[2] \in DOMAIN tickers[pb[1]]}
                      \X RequiredQuotes(pairs) :
                  QuoteOf(pairs, t[1][1], t[1][2]) = t[2]}
      conv(p, base) ==
        LET q == QuoteOf(pairs, p, base)
        IN IF q = DenomUSD THEN tickers[p][base]
           ELSE [tickers[p][base] EXCEPT !.Price = Mul(@, rate(p, q)[q])]
  IN IF \E t \in needs : t[2] \notin DOMAIN rate(t[1][1], t[2])
     THEN [tickers |-> <<>>, err |-> TRUE]
     ELSE [tickers |-> [p \in DOMAIN tickers |->
                          [base \in DOMAIN tickers[p] |-> conv(p, base)]],
           err |-> FALSE]

atomPair == [Base |-> "ATOM", Quote |-> "OSMO"]
osmoPair == [Base |-> "OSMO", Quote |-> DenomUSD]

\* binance has the pair ATOM/OSMO and perhaps OSMO/USD too; kraken and osmosis
\* have OSMO/USD or no pair.  ATOM is at 2 or 3 OSMO, OSMO at 0.5 or 1.5 USD.
atomPrices == {NewDec(2), NewDec(3)}
osmoPrices == {DecUnit \div 2, (3 * DecUnit) \div 2}
ConvertQuotes ==
  {q \in [Providers -> PartialMaps(AggBases, atomPrices \cup osmoPrices)] :
     /\ \A p \in Providers : "OSMO" \in DOMAIN q[p] => q[p]["OSMO"] \in osmoPrices
     /\ "ATOM" \in DOMAIN q["binance"] /\ q["binance"]["ATOM"] \in atomPrices
     /\ \A p \in Providers \ {"binance"} : "ATOM" \notin DOMAIN q[p]}

\* The pairs of the providers that quote q.
ConvertPairs(q) ==
  [p \in Providers |->
     (IF "ATOM" \in DOMAIN q[p] THEN <<atomPair>> ELSE <<>>)
       \o (IF "OSMO" \in DOMAIN q[p] THEN <<osmoPair>> ELSE <<>>)]

ConvertInit ==
  /\ QuietFeeder
  /\ NoProvider
  /\ NoHealth
  /\ \E q \in ConvertQuotes :
       /\ providerPrices = TickersOf(q)
       /\ providerCandles = CandlesOf(q)
       /\ providerPairs = ConvertPairs(q)
  /\ deviations = <<>>
  /\ agg = Nil
  /\ fetch = <<>>

ConvertCandlesToUSDCall ==
  /\ agg = Nil
  /\ agg' = Some([op |-> "ConvertCandlesToUSD"]
                   @@ ConvertCandlesToUSD(providerCandles, providerPairs))
  /\ UNCHANGED <<quietVars, providerPrices, providerCandles, deviations, fetch, providerPairs>>

ConvertTickersToUSDCall ==
  /\ agg = Nil
  /\ agg' = Some([op |-> "ConvertTickersToUSD"]
                   @@ ConvertTickersToUSD(providerPrices, providerPairs))
  /\ UNCHANGED <<quietVars, providerPrices, providerCandles, deviations, fetch, providerPairs>>

ConvertNext == ConvertCandlesToUSDCall \/ ConvertTickersToUSDCall

ConvertSpec == ConvertInit /\ [][ConvertNext]_vars

\* ------------------------------------------------------- GetComputedPrices

\* The fallback is taken base by base: what the TVWAP lacks comes from the VWAP.
GetComputedPricesMixed(candles, tickers, pairs, deviationThresholds, last) ==
  LET converted == ConvertCandlesToUSD(candles, pairs)
      filtered == filterCandleDeviations(converted.candles, deviationThresholds, last)
      tvwapPrices == ComputeTVWAP(filtered.candles)
      convertedTickers == ConvertTickersToUSD(tickers, pairs)
      vwapPrices == ComputeVWAP(FilterTickerDeviations(convertedTickers.tickers,
                                                       deviationThresholds))
  IN IF converted.err \/ filtered.err \/ tvwapPrices.err \/ convertedTickers.err
     THEN [prices |-> <<>>, err |-> TRUE]
     ELSE [prices |-> tvwapPrices.prices @@ vwapPrices, err |-> FALSE]

\* GetComputedPrices, the range of filterCandleDeviations over each provider's
\* bases ending with last[provider]: the prices, <<>> for nil, and whether an
\* error is returned.
GetComputedPrices(candles, tickers, pairs, deviationThresholds, last) ==
  LET converted == ConvertCandlesToUSD(candles, pairs)
      filtered == filterCandleDeviations(converted.candles, deviationThresholds, last)
      tvwapPrices == ComputeTVWAP(filtered.candles)
      convertedTickers == ConvertTickersToUSD(tickers, pairs)
  IN IF converted.err \/ filtered.err \/ tvwapPrices.err
     THEN [prices |-> <<>>, err |-> TRUE]
     ELSE IF DOMAIN tvwapPrices.prices = {}
          THEN IF convertedTickers.err THEN [prices |-> <<>>, err |-> TRUE]
               ELSE [prices |-> ComputeVWAP(FilterTickerDeviations(convertedTickers.tickers,
                                                                   deviationThresholds)),
                     err |-> FALSE]
          ELSE [prices |-> tvwapPrices.prices, err |-> FALSE]

\* The snapshots GetComputedPrices is given: every provider has the pairs
\* ATOM/USD and OSMO/USD; a provider holds for a base a ticker at 3 or none,
\* and binance and kraken one candle at 2, stamped inside the window or at its
\* edge, or none.
usdPairs == [p \in Providers |-> <<[Base |-> "ATOM", Quote |-> DenomUSD],
                                   [Base |-> "OSMO", Quote |-> DenomUSD]>>]
ComputedTickers ==
  {TickersOf(q) : q \in [Providers -> PartialMaps(AggBases, {NewDec(3)})]}
ComputedCandles ==
  {Kept([p \in Providers |-> [base \in DOMAIN c[p] |->
           <<[Price |-> NewDec(2), Volume |-> NewDec(1), TimeStamp |-> c[p][base]]>>]]) :
     c \in {d \in [Providers -> PartialMaps(AggBases, {timePeriod, now - 2})] :
              d["osmosis"] = <<>>}}

ComputedInit ==
  /\ QuietFeeder
  /\ NoProvider
  /\ NoHealth
  /\ providerPrices \in ComputedTickers
  /\ providerCandles \in ComputedCandles
  /\ providerPairs = usdPairs
  /\ deviations = <<>>
  /\ agg = Nil
  /\ fetch = <<>>

GetComputedPricesCall ==
  /\ agg = Nil
  /\ \E last \in LastVisited(providerCandles) :
       agg' = Some([op |-> "GetComputedPrices", last |-> last]
                     @@ GetComputedPrices(providerCandles, providerPrices,
                                          providerPairs, deviations, last))
  /\ UNCHANGED <<quietVars, providerPrices, providerCandles, deviations, fetch, providerPairs>>

ComputedNext == GetComputedPricesCall

ComputedSpec == ComputedInit /\ [][ComputedNext]_vars

\* ------------------------------------------------ setPrices: the gathering

\* SetProviderTickerPricesAndCandles: the provider's maps are created if
\* absent, the pair's ticker and candles are stored under the pair's base where
\* the responses hold them; success if either was there.
SetProviderTickerPricesAndCandles(providerName, pp, pcs, tickers, candles, pair) ==
  LET pp1 == IF providerName \in DOMAIN pp THEN pp ELSE (providerName :> <<>>) @@ pp
      pcs1 == IF providerName \in DOMAIN pcs THEN pcs ELSE (providerName :> <<>>) @@ pcs
      pricesOk == pair \in DOMAIN tickers
      candlesOk == pair \in DOMAIN candles
  IN [providerPrices |->
        IF pricesOk
        THEN [pp1 EXCEPT ![providerName] = (pair.Base :> tickers[pair]) @@ @]
        ELSE pp1,
      providerCandles |->
        IF candlesOk
        THEN [pcs1 EXCEPT ![providerName] = (pair.Base :> candles[pair]) @@ @]
        ELSE pcs1,
      success |-> pricesOk \/ candlesOk]

\* The loop of a provider's goroutine over its pairs cp, under the mutex: it
\* returns its error at the first pair that is in neither response.
RECURSIVE CollectPairs(_, _, _, _, _, _)
CollectPairs(pn, pp, pcs, tickers, candles, cp) ==
  IF cp = <<>>
  THEN [providerPrices |-> pp, providerCandles |-> pcs, err |-> FALSE]
  ELSE LET s == SetProviderTickerPricesAndCandles(pn, pp, pcs, tickers, candles, Head(cp))
       IN IF ~s.success
          THEN [providerPrices |-> s.providerPrices,
                providerCandles |-> s.providerCandles, err |-> TRUE]
          ELSE CollectPairs(pn, s.providerPrices, s.providerCandles,
                            tickers, candles, Tail(cp))

\* The configured pairs: binance has ATOM/USD and OSMO/USD, kraken ATOM/USD,
\* osmosis OSMO/USD.
gatherPairs ==
  [p \in Providers |->
     (IF p \in {"binance", "kraken"} THEN <<[Base |-> "ATOM", Quote |-> DenomUSD]>> ELSE <<>>)
       \o (IF p \in {"binance", "osmosis"} THEN <<[Base |-> "OSMO", Quote |-> DenomUSD]>>
           ELSE <<>>)]

\* What a provider may answer: for each of its pairs a ticker at 3 or nothing,
\* one candle at 2 inside the window or nothing.
TickerResponses(p) ==
  PartialMaps(PairsOf(gatherPairs, p), {[Price |-> NewDec(3), Volume |-> NewDec(1)]})
CandleResponses(p) ==
  PartialMaps(PairsOf(gatherPairs, p),
              {<<[Price |-> NewDec(2), Volume |-> NewDec(1), TimeStamp |-> now - 2]>>})

\* A goroutine of the errgroup: where it is, what it holds, whether it has
\* returned an error, and whether the provider timeout has passed since it
\* started while a call of the provider was outstanding.
Started ==
  [pc |-> "GetTickerPrices", prices |-> <<>>, candles |-> <<>>, err |-> FALSE, late |-> FALSE]

GatherInit ==
  /\ QuietFeeder
  /\ NoProvider
  /\ NoHealth
  /\ providerPrices = <<>>
  /\ providerCandles = <<>>
  /\ providerPairs = gatherPairs
  /\ deviations = <<>>
  /\ agg = Nil
  /\ fetch = [p \in Providers |-> Started]

\* priceProvider.GetTickerPrices(cp...) returns: an error, which ends the
\* goroutine, or the tickers.
GetTickerPricesReturns(p) ==
  /\ fetch[p].pc = "GetTickerPrices"
  /\ \/ fetch' = [fetch EXCEPT ![p].pc = "done", ![p].err = TRUE]
     \/ \E tickers \in TickerResponses(p) :
          fetch' = [fetch EXCEPT ![p].pc = "GetCandlePrices", ![p].prices = tickers]
  /\ UNCHANGED <<quietVars, providerPrices, providerCandles, deviations, agg, providerPairs>>

\* priceProvider.GetCandlePrices(cp...) returns: an error, which ends the
\* goroutine, or the candles.
GetCandlePricesReturns(p) ==
  /\ fetch[p].pc = "GetCandlePrices"
  /\ \/ fetch' = [fetch EXCEPT ![p].pc = "done", ![p].err = TRUE, ![p].prices = <<>>]
     \/ \E candles \in CandleResponses(p) :
          fetch' = [fetch EXCEPT ![p].pc = "collect", ![p].candles = candles]
  /\ UNCHANGED <<quietVars, providerPrices, providerCandles, deviations, agg, providerPairs>>

\* mtx.Lock(); the loop over the pairs; mtx.Unlock(); return.
Collect(p) ==
  /\ fetch[p].pc = "collect"
  /\ LET c == CollectPairs(p, providerPrices, providerCandles,
                           fetch[p].prices, fetch[p].candles, providerPairs[p])
     IN /\ providerPrices' = c.providerPrices
        /\ providerCandles' = c.providerCandles
        /\ fetch' = [fetch EXCEPT ![p].pc = "done", ![p].err = c.err,
                                  ![p].prices = <<>>, ![p].candles = <<>>]
  /\ UNCHANGED <<quietVars, deviations, agg, providerPairs>>

\* The provider timeout passes while a call of the provider is outstanding:
\* nothing in setPrices reads providerTimeout, the goroutine stays in its call.
ProviderTimeoutPasses(p) ==
  /\ fetch[p].pc \in {"GetTickerPrices", "GetCandlePrices"}
  /\ ~fetch[p].late
  /\ fetch' = [fetch EXCEPT ![p].late = TRUE]
  /\ UNCHANGED <<quietVars, providerPrices, providerCandles, deviations, agg, providerPairs>>

\* g.Wait() returns once every goroutine has returned; its error is logged and
\* the snapshot goes to GetComputedPrices.
WaitAndCompute ==
  /\ agg = Nil
  /\ \A p \in Providers : fetch[p].pc = "done"
  /\ \E last \in LastVisited(providerCandles) :
       agg' = Some([op |-> "GetComputedPrices", last |-> last]
                     @@ GetComputedPrices(providerCandles, providerPrices,
                                          providerPairs, deviations, last))
  /\ UNCHANGED <<quietVars, providerPrices, providerCandles, deviations, fetch, providerPairs>>

GatherNext ==
  \/ \E p \in Providers :
       \/ GetTickerPricesReturns(p)
       \/ GetCandlePricesReturns(p)
       \/ Collect(p)
       \/ ProviderTimeoutPasses(p)
  \/ WaitAndCompute

GatherSpec == GatherInit /\ [][GatherNext]_vars

\* -------------------------------------------------- provider ticker reads

\* CurrencyPair.String: the ticker symbol of a pair.
CurrencyPairString(cp) == cp.Base \o cp.Quote

\* The read skips the pairs that have no cached ticker and returns the others.
RECURSIVE GetTickerPricesPartial(_, _)
GetTickerPricesPartial(cache, pairs) ==
  IF pairs = <<>> THEN [prices |-> <<>>, nil |-> FALSE, err |-> ""]
  ELSE LET key == CurrencyPairString(Head(pairs))
           rest == GetTickerPricesPartial(cache, Tail(pairs))
       IN IF key \notin DOMAIN cache THEN rest
          ELSE [rest EXCEPT !.prices = (key :> cache[key]) @@ @]

\* GetTickerPrices(pairs...) of a websocket provider: the cached ticker of each
\* pair under the pair's symbol; at the first pair without one, a nil map and
\* ErrTickerNotFound for that symbol.  err is "" for no error, else the symbol.
RECURSIVE GetTickerPrices(_, _)
GetTickerPrices(cache, pairs) ==
  IF pairs = <<>> THEN [prices |-> <<>>, nil |-> FALSE, err |-> ""]
  ELSE LET key == CurrencyPairString(Head(pairs))
           rest == GetTickerPrices(cache, Tail(pairs))
       IN IF key \notin DOMAIN cache THEN [prices |-> <<>>, nil |-> TRUE, err |-> key]
          ELSE IF rest.nil THEN rest
          ELSE [rest EXCEPT !.prices = (key :> cache[key]) @@ @]

\* The pairs of the providers' tests, the symbols the exchange sends tickers
\* for, and two tickers.
RequestPairs ==
  {[Base |-> "ATOM", Quote |-> "USD"], [Base |-> "OSMO", Quote |-> "USD"],
   [Base |-> "FOO", Quote |-> "BAR"]}
Requests == {<<a>> : a \in RequestPairs} \cup {<<a, b>> : a \in RequestPairs, b \in RequestPairs}
CachedSymbols == {"ATOMUSD", "OSMOUSD"}
CachedTickers ==
  {[Price |-> NewDec(3), Volume |-> NewDec(1)], [Price |-> NewDec(4), Volume |-> NewDec(1)]}

\* The provider after its construction: nothing cached.
TickerInit ==
  /\ QuietFeeder
  /\ NoHealth
  /\ NoAggregation
  /\ tickerCache = <<>>
  /\ cfg = Nil

\* A ticker message of the exchange is stored under its symbol.
setTickerPair(symbol, ticker) ==
  /\ agg = Nil
  /\ tickerCache' = (symbol :> ticker) @@ tickerCache
  /\ UNCHANGED <<feederVars, providerPrices, providerCandles, deviations, agg, fetch,
                 providerPairs, cfg, healthVars>>

GetTickerPricesCall ==
  /\ agg = Nil
  /\ \E pairs \in Requests :
       agg' = Some([op |-> "GetTickerPrices", pairs |-> pairs]
                     @@ GetTickerPrices(tickerCache, pairs))
  /\ UNCHANGED <<feederVars, providerPrices, providerCandles, deviations, fetch,
                 providerPairs, tickerCache, cfg, healthVars>>

TickerNext ==
  \/ \E symbol \in CachedSymbols, ticker \in CachedTickers : setTickerPair(symbol, ticker)
  \/ GetTickerPricesCall

TickerSpec == TickerInit /\ [][TickerNext]_vars

\* ------------------------------------------------------- the configuration

\* SupportedProviders and SupportedQuotes of package config, by the providers'
\* names.
SupportedProviders ==
  {"kraken", "binance", "binanceus", "osmosis", "crypto", "coinbase", "huobi", "mock"}
SupportedQuotes == {DenomUSD}

\* strings.ToUpper over the quotes the configurations below use.
ToUpper(s) == IF s = "usd" THEN "USD" ELSE s

\* ParseConfig after the file is decoded and the defaults are set: the error
\* it returns, "" for nil.
ParseConfig(c) ==
  LET pairs == c.CurrencyPairs
      pairErr(cp) ==
        IF ToUpper(cp.Quote) \notin SupportedQuotes THEN "unsupported quote"
        ELSE IF \E i \in 1..Len(cp.Providers) : cp.Providers[i] \notin SupportedProviders
             THEN "unsupported provider"
             ELSE ""
      bad == {i \in 1..Len(pairs) : pairErr(pairs[i]) # ""}
      coinQuotes == {pairs[i].Quote : i \in {j \in 1..Len(pairs) :
                                               ToUpper(pairs[j].Quote) # DenomUSD}}
  IN IF bad # {} THEN pairErr(pairs[CHOOSE i \in bad : \A j \in bad : i <= j])
     ELSE IF \E quote \in coinQuotes :
               ~\E i \in 1..Len(pairs) : pairs[i].Base = quote /\ pairs[i].Quote = DenomUSD
          THEN "all non-usd quotes require a conversion rate feed"
     ELSE IF \E i \in 1..Len(c.Deviations) : c.Deviations[i].Threshold > maxDeviationThreshold
          THEN "deviation thresholds must not exceed 3.0"
     ELSE IF pairs = <<>> \/ \E i \in 1..Len(pairs) : pairs[i].Providers = <<>>
          THEN "validation"
          ELSE ""

\* The configurations: one or two currency pairs among ATOM/USD, ATOM/OSMO,
\* OSMO/USD and OSMO/usd, each with one provider (a supported one or "ftx") or
\* with kraken and binance; no threshold or one for ATOM; the override flag.
ConfigPairs ==
  {[Base |-> bq[1], Quote |-> bq[2], Providers |-> ps] :
     bq \in {<<"ATOM", "USD">>, <<"ATOM", "OSMO">>, <<"OSMO", "USD">>, <<"OSMO", "usd">>},
     ps \in {<<p>> : p \in SupportedProviders \cup {"ftx"}} \cup {<<"kraken", "binance">>}}
Configs ==
  [CurrencyPairs : {<<a>> : a \in ConfigPairs}
                     \cup {<<a, b>> : a \in ConfigPairs, b \in ConfigPairs},
   Deviations : {<<>>} \cup {<<[Base |-> "ATOM", Threshold |-> t]>> : t \in ThresholdValues},
   ProviderMinOverride : BOOLEAN]

ConfigInit ==
  /\ QuietFeeder
  /\ NoHealth
  /\ NoAggregation
  /\ tickerCache = <<>>
  /\ \E c \in Configs : cfg = Some(c)

ParseConfigCall ==
  /\ agg = Nil
  /\ agg' = Some([op |-> "ParseConfig", err |-> ParseConfig(cfg[1])])
  /\ UNCHANGED <<feederVars, providerPrices, providerCandles, deviations, fetch,
                 providerPairs, tickerCache, cfg, healthVars>>

\* The providers configured for a base, and all configured providers.
ProvidersOfBase(c, base) ==
  UNION {{c.CurrencyPairs[i].Providers[k] : k \in 1..Len(c.CurrencyPairs[i].Providers)} :
           i \in {j \in 1..Len(c.CurrencyPairs) : c.CurrencyPairs[j].Base = base}}
ConfiguredBases(c) == {c.CurrencyPairs[i].Base : i \in 1..Len(c.CurrencyPairs)}
ConfiguredProviders(c) == UNION {ProvidersOfBase(c, base) : base \in ConfiguredBases(c)}

minimumProvider == 2

\* What newCurrencyProviderTracker may give: Nil for its error, or Some of the
\* minimum it has set for the bases CoinGecko lists an exchange for.
TrackerResults == {Nil} \cup {Some(m) : m \in PartialMaps(AggBases, {1, minimumProvider})}

\* The override flag is never read.
CheckProviderMinimumNoOverride(c, tracker) ==
  LET minProviders(base) ==
        IF tracker = Nil THEN minimumProvider
        ELSE IF base \in DOMAIN tracker[1] THEN tracker[1][base] ELSE 0
  IN \E base \in ConfiguredBases(c) :
       /\ "mock" \notin ProvidersOfBase(c, base)
       /\ Cardinality(ProvidersOfBase(c, base)) < minProviders(base)

\* CheckProviderMinimum: TRUE if it returns an error.
CheckProviderMinimum(c, tracker) ==
  LET minProviders(base) ==
        IF tracker = Nil THEN minimumProvider
        ELSE IF base \in DOMAIN tracker[1] THEN tracker[1][base] ELSE 0
  IN IF tracker = Nil /\ c.ProviderMinOverride THEN FALSE
     ELSE \E base \in ConfiguredBases(c) :
            /\ "mock" \notin ProvidersOfBase(c, base)
            /\ Cardinality(ProvidersOfBase(c, base)) < minProviders(base)

CheckProviderMinimumCall ==
  /\ agg # Nil /\ agg[1].op = "ParseConfig" /\ agg[1].err = ""
  /\ \E tracker \in TrackerResults :
       agg' = Some([op |-> "CheckProviderMinimum", tracker |-> tracker,
                    err |-> CheckProviderMinimum(cfg[1], tracker)])
  /\ UNCHANGED <<feederVars, providerPrices, providerCandles, deviations, fetch,
                 providerPairs, tickerCache, cfg, healthVars>>

\* NewProvider: TRUE if it returns "provider ... not found".
NewProvider(providerName) ==
  providerName \notin {"binance", "binanceus", "kraken", "osmosis"}

\* The first tick's setPrices ranges over the configured providers and returns
\* the error of the first getOrSetProvider that fails: the provider it names,
\* "" if every provider was created.
setPricesProviders ==
  /\ agg # Nil /\ agg[1].op = "CheckProviderMinimum" /\ ~agg[1].err
  /\ LET failing == {p \in ConfiguredProviders(cfg[1]) : NewProvider(p)}
     IN \E notFound \in (IF failing = {} THEN {""} ELSE failing) :
          agg' = Some([op |-> "setPrices", notFound |-> notFound])
  /\ UNCHANGED <<feederVars, providerPrices, providerCandles, deviations, fetch,
                 providerPairs, tickerCache, cfg, healthVars>>

ConfigNext == ParseConfigCall \/ CheckProviderMinimumCall \/ setPricesProviders

ConfigSpec == ConfigInit /\ [][ConfigNext]_vars

\* ------------------------------------------------- the last price sync time

\* How executeTick may return: with nil, or with an error.
TickSucceeded == {"skip", "miss", "prevoted", "voted"}
TickFailed == {"heightError", "paramsError", "pricesError"}

\* The oracle after New, the clock running.
HealthInit ==
  /\ QuietFeeder
  /\ NoProvider
  /\ NoAggregation
  /\ lastPriceSyncTS = 0
  /\ wallClock = 1

ClockAdvances ==
  /\ wallClock < MaxClock
  /\ wallClock' = wallClock + 1
  /\ UNCHANGED <<feederVars, providerPrices, providerCandles, deviations, agg, fetch,
                 providerPairs, provVars, lastPriceSyncTS>>

\* One pass of Start's default branch up to the sleep: executeTick returns,
\* its error is logged, and lastPriceSyncTS is set to time.Now().
StartTick ==
  /\ pc = "tick"
  /\ \E out \in TickSucceeded \cup TickFailed : outcome' = out
  /\ lastPriceSyncTS' = wallClock
  /\ pc' = "sleep"
  /\ UNCHANGED <<chainVars, trackerVars, ctxVars, lockVars, ratesStr, paramCache,
                 paramQueries, prices, voteVars, tk, bc, histVars, providerPrices,
                 providerCandles, deviations, agg, fetch, providerPairs, provVars,
                 wallClock>>

\* GetLastPriceSyncTimestamp returns lastPriceSyncTS.
GetLastPriceSyncTimestamp ==
  /\ agg' = Some([op |-> "GetLastPriceSyncTimestamp", ts |-> lastPriceSyncTS])
  /\ UNCHANGED <<feederVars, providerPrices, providerCandles, deviations, fetch,
                 providerPairs, provVars, healthVars>>

HealthNext == ClockAdvances \/ StartTick \/ Wake \/ GetLastPriceSyncTimestamp

HealthSpec == HealthInit /\ [][HealthNext]_vars
\* ----------------------------------------------------------------- claims

\* The tick loop is between two executeTick calls.
BetweenTicks == pc \in {"tick", "sleep"}

\* executeTick returned one of its errors of before the vote step.
AbortOutcomes == {"heightError", "paramsError", "pricesError"}

\* votePeriod - ((H+1) mod votePeriod) < 2 for the height H.
NearBoundary(blockHeight) == votePeriod - IndexInVotePeriod(blockHeight, votePeriod) < 2

\* An executeTick call runs in this step and reads the height lastChainHeight.
TickStep == pc = "tick" /\ pc' # "tick"

\* C1: between ticks, previousPrevote is non-nil exactly when a prevote was
\* broadcast successfully and has since been neither revealed by a successful
\* vote broadcast nor cleared by a detected period miss.
C1_VoteStateProgression ==
  BetweenTicks => ((previousPrevote # Nil) <=> (outstanding # Nil))

\* C2: among the ticks that compute the same currentVotePeriod, at most one
\* reveal-vote BroadcastTx call succeeds.
C2_AtMostOneVotePerPeriod == votesInPeriod <= 1

\* C3: a vote message being broadcast carries the salt and the exchange rates
\* stored in previousPrevote, and they are the ones whose hash the outstanding
\* prevote committed to.
C3_RevealCarriesStoredPrevote ==
  (bc.msg # Nil /\ bc.msg[1].kind = "vote") =>
    /\ previousPrevote # Nil
    /\ bc.msg[1].salt = previousPrevote[1].Salt
    /\ bc.msg[1].exchangeRates = previousPrevote[1].ExchangeRates
    /\ outstanding = Some(GetAggregateVoteHash(bc.msg[1].salt, bc.msg[1].exchangeRates))

\* C3 witness: a reveal is being broadcast by a tick whose own salt and rates
\* both differ from the stored ones.
C3_Witness ==
  /\ pc = "inTx"
  /\ bc.msg[1].kind = "vote"
  /\ tk.salt # previousPrevote[1].Salt
  /\ tk.exchangeRatesStr # previousPrevote[1].ExchangeRates

\* C4: a tick that reads a height H with votePeriod - ((H+1) mod votePeriod) < 2
\* returns without calling BroadcastTx and leaves previousPrevote and
\* previousVotePeriod unchanged, whatever the vote state.
C4_SkipNearBoundary ==
  [][(TickStep /\ NearBoundary(lastChainHeight)) =>
       (pc' = "sleep" /\ UNCHANGED voteVars)]_vars

\* C4 witness: a tick has skipped near the boundary with a prevote outstanding
\* that is due for its reveal in this very period.
C4_Witness ==
  /\ pc = "sleep"
  /\ outcome = "skip"
  /\ NearBoundary(tk.blockHeight)
  /\ previousPrevote # Nil
  /\ CurrentVotePeriod(tk.blockHeight, votePeriod) = previousVotePeriod + 1

\* C5: a tick in which a prevote is outstanding and whose current vote period
\* equals the period recorded for it returns without calling BroadcastTx and
\* leaves the vote state unchanged, for every recorded period, 0 included.
C5_SamePeriodSkip ==
  [][(/\ TickStep
      /\ previousPrevote # Nil
      /\ CurrentVotePeriod(lastChainHeight, votePeriod) = previousVotePeriod) =>
       (pc' = "sleep" /\ UNCHANGED voteVars)]_vars

\* C6: a tick that reaches the vote step with a prevote outstanding, with the
\* skip condition false and current - previousVotePeriod # 1, clears
\* previousPrevote and previousVotePeriod and broadcasts nothing.
C6_PeriodMissReset ==
  [][(/\ TickStep
      /\ outcome' \notin AbortOutcomes
      /\ previousPrevote # Nil
      /\ CurrentVotePeriod(lastChainHeight, votePeriod) # previousVotePeriod
      /\ ~NearBoundary(lastChainHeight)
      /\ CurrentVotePeriod(lastChainHeight, votePeriod) - previousVotePeriod # 1) =>
       (pc' = "sleep" /\ previousPrevote' = Nil /\ previousVotePeriod' = 0)]_vars

\* C7: when BroadcastTx returns an error, previousPrevote and
\* previousVotePeriod keep their values: an unrevealed prevote stays recorded,
\* and no prevote is recorded for a prevote that failed.
C7_FailedBroadcastKeepsState ==
  [][(pc \in {"broadcast", "inTx", "waitTx"} /\ pc' = "sleep" /\ outcome' # "voted") =>
       /\ UNCHANGED voteVars
       /\ bc.msg[1].kind = "prevote" => previousPrevote' = Nil
       /\ bc.msg[1].kind = "vote" => previousPrevote' # Nil]_vars

\* C7 witness: a reveal failed and its prevote is still recorded, in a period
\* that is not over, so that the next tick reveals again.
C7_Witness ==
  /\ pc = "sleep"
  /\ outcome = "voteHeightError"
  /\ previousPrevote # Nil
  /\ CurrentVotePeriod(lastChainHeight, votePeriod) = previousVotePeriod + 1
  /\ ~NearBoundary(lastChainHeight)

\* C8: a tick that fails before the vote step (height read failed or below 1,
\* params failed, prices failed) returns without calling BroadcastTx and
\* leaves previousPrevote and previousVotePeriod unchanged.
C8_AbortLeavesVoteState ==
  [][/\ (TickStep /\ (errGetChainHeight \/ lastChainHeight < 1)) =>
          outcome' = "heightError"
     /\ (TickStep /\ outcome' \in AbortOutcomes) =>
          (pc' = "sleep" /\ UNCHANGED voteVars)]_vars

\* C8 witness: a tick failed in setPrices while a prevote was outstanding.
C8_Witness ==
  /\ pc = "sleep"
  /\ outcome = "pricesError"
  /\ previousPrevote # Nil

\* C9: BroadcastTx returns the timeout error on observing a height h with
\* h - startHeight >= timeoutHeights, every attempt is made at an observed
\* height below that, and every attempt of a reveal vote is made at a height
\* of the revealing tick's own vote period.
C9_TimeoutInHeights ==
  [][/\ (/\ pc = "broadcast" /\ pc' # pc
         /\ ~errGetChainHeight
         /\ lastChainHeight - bc.nextBlockHeight >= bc.timeoutHeight) =>
          (pc' = "sleep" /\ outcome' \in {"voteTimeout", "prevoteTimeout"})
     /\ pc' = "inTx" =>
          /\ bc'.lastCheckHeight - bc'.nextBlockHeight < bc'.timeoutHeight
          /\ bc'.msg[1].kind = "vote" =>
               bc'.lastCheckHeight \div votePeriod
                 = CurrentVotePeriod(tk'.blockHeight, votePeriod)]_vars

\* C9 witness: a reveal vote has timed out, on observing the first height of
\* the period after the revealing tick's.
C9_Witness ==
  /\ pc = "sleep"
  /\ outcome = "voteTimeout"
  /\ lastChainHeight \div votePeriod = CurrentVotePeriod(tk.blockHeight, votePeriod) + 1

C11_BroadcastBoundedInBlocks ==
  pc = "waitTx" => bc.waitStart < bc.maxBlockHeight

\* The tick loop is inside a BroadcastTx call.
InBroadcastTx == pc \in {"broadcast", "inTx", "waitTx"}

\* A step of the BroadcastTx call in progress.
BroadcastStep == BroadcastPoll \/ BroadcastAttempt \/ WaitForTx

\* C12: a BroadcastTx call in progress when the root context is cancelled
\* returns in the end, also when the chain height never advances again: once
\* the context is done and the subscriber has returned (the height is frozen),
\* the call can still take a step that changes its state.
C12_BroadcastHonoursCancel ==
  (ctxDone /\ subscriber = "done" /\ InBroadcastTx) => ENABLED <<BroadcastStep>>_vars

\* C13: once the root context is cancelled, Start signals the closer, starts
\* no further tick and returns: when the closer has been signalled, Start has
\* returned.
C13_StartReturnsOnCancel ==
  closerClosed => pc = "returned"

\* The errors executeTick returns.
ErrorOutcomes ==
  {"heightError", "paramsError", "pricesError", "prepareError", "noPrice", "clientError",
   "prevoteHeightError", "voteHeightError", "prevoteTimeout", "voteTimeout",
   "prevoteFailed", "voteFailed", "recordHeightError"}

\* C14: whatever error executeTick returns, Start goes on to its sleep instead
\* of returning; the sleep ends at the loop's select; and there, with the
\* context not cancelled, the next tick can start.
C14_TickErrorsSwallowed ==
  [][/\ (pc # "sleep" /\ outcome' \in ErrorOutcomes) => pc' = "sleep"
     /\ (pc = "sleep" /\ pc' # "sleep") => pc' = "tick"
     /\ (pc = "tick" /\ ~ctxDone) => ENABLED ExecuteTick]_vars

\* C14 witness: a broadcast timed out, executeTick returned the error, and
\* Start sleeps with the context live and its next pass ahead.
C14_Witness ==
  /\ pc = "sleep"
  /\ outcome \in {"voteTimeout", "prevoteTimeout"}
  /\ ~ctxDone
  /\ ENABLED Wake

\* C15: the map a GetPrices call returns is the complete map one setPrices
\* call published (or the initial empty map): from the range statement to the
\* return the map it goes through is the published o.prices, which no
\* publication replaces meanwhile, what it has copied so far are entries of
\* that map, and what it returns is that map, whole.
C15_AtomicPublication ==
  /\ getp.pc = "copy" =>
       /\ getp.m = prices
       /\ getp.prices = [b \in DOMAIN getp.m \ getp.todo |-> getp.m[b]]
  /\ getp.pc = "returned" => getp.prices = getp.m

\* C15 witness: a GetPrices call is half way through a map of several bases
\* while setPrices, with a different map computed, waits for the lock.
C15_Witness ==
  /\ getp.pc = "copy"
  /\ getp.todo # {}
  /\ getp.prices # <<>>
  /\ setp.pc = "lock"
  /\ setp.computedPrices # prices
  /\ DOMAIN setp.computedPrices = DOMAIN prices

\* GetChainHeight returns the initial height until a header event is
\* processed, and from then on the height of the last one processed.
TrackedHeight ==
  subscriber \in {"running", "done"} =>
    lastChainHeight = IF lastHeader = 0 THEN initialHeight ELSE lastHeader

\* C16 as claimed: newChainHeight with an initial height < 1 returns its error
\* without subscribing; when it succeeds, GetChainHeight returns the initial
\* height with no error until a header event is processed, and afterwards the
\* height of the most recently processed header event.
C16_NoErrorBeforeFirstHeader ==
  /\ (subscriber # "none" /\ initialHeight < 1) => subscriber = "rejected"
  /\ TrackedHeight
  /\ (subscriber \in {"running", "done"} /\ lastHeader = 0) => ~errGetChainHeight

\* C16 amended: an initial height < 1 is rejected before Start and Subscribe,
\* with no tracker made; a successful construction leaves the initial height
\* and no error; GetChainHeight returns the initial height until a header
\* event is processed and afterwards the height of the last one processed;
\* every processed header event clears the error, and what sets it (an event
\* that is no header, a failed Unsubscribe) keeps the height.
C16_TrackerStart ==
  [][/\ (subscriber = "none" /\ subscriber' # "none") =>
          /\ (initialHeight' < 1) <=> (subscriber' = "rejected")
          /\ subscriber' = "running" =>
               (lastChainHeight' = initialHeight' /\ ~errGetChainHeight' /\ lastHeader' = 0)
          /\ subscriber' # "running" => UNCHANGED <<lastChainHeight, errGetChainHeight>>
     /\ TrackedHeight /\ TrackedHeight'
     /\ lastHeader' # lastHeader => ~errGetChainHeight'
     /\ (errGetChainHeight' /\ ~errGetChainHeight) => lastChainHeight' = lastChainHeight]_vars

\* C16 witness: a tracker constructed at a height above 1 has processed a
\* header event and then an event that is no header.
C16_Witness ==
  /\ subscriber = "running"
  /\ initialHeight > 1
  /\ lastHeader > initialHeight
  /\ errGetChainHeight

\* C17: after the root context is cancelled the subscriber task returns in
\* the end, issuing Unsubscribe as it does, and once it has returned no header
\* event changes the cached height any more.
C17_AutoUnsubscribe ==
  /\ (ctxDone /\ subscriber = "running") ~> (subscriber = "done")
  /\ [][subscriber = "done" =>
          (subscriber' = "done" /\ lastChainHeight' = lastChainHeight
             /\ lastHeader' = lastHeader)]_vars

\* C17 witness: the subscriber has returned after the cancellation, having
\* processed header events, at a height after which the chain goes on.
C17_Witness ==
  /\ ctxDone
  /\ subscriber = "done"
  /\ lastHeader > 0
  /\ lastChainHeight < MaxHeight

\* C18: a tick that finds the cache fresh for its height leaves the cache as
\* it is and makes no params query; no second successful query is made in the
\* bucket the cache was filled in; a tick whose query fails leaves the cache
\* unchanged and returns the error without reaching the vote step.
C18_ParamsCache ==
  [][TickStep =>
       /\ (~errGetChainHeight /\ ~IsOutdated(lastChainHeight)) =>
            (UNCHANGED <<paramCache, paramQueries>> /\ outcome' # "paramsError")
       /\ paramQueries' <= 1
       /\ (~errGetChainHeight /\ IsOutdated(lastChainHeight) /\ paramCache' = paramCache) =>
            (outcome' = "paramsError" /\ pc' = "sleep" /\ UNCHANGED <<prices, voteVars>>)]_vars

\* C18 witness: a refresh in a later bucket failed, the cache still holds the
\* params of the earlier bucket, fetched once.
C18_Witness ==
  /\ pc = "sleep"
  /\ outcome = "paramsError"
  /\ paramCache # Nil
  /\ paramQueries = 1
  /\ tk.blockHeight \div ParamBucket > paramCache[1].bucket

\* The entries BASE:price of a price map.
Entries(p) == {RateEntry(b, p[b]) : b \in DOMAIN p}

\* The fractional digits of an entry: what follows its point.
RECURSIVE Fraction(_)
Fraction(s) == IF s = <<>> THEN <<>> ELSE IF Head(s) = "." THEN Tail(s) ELSE Fraction(Tail(s))

\* The entries of a string: its pieces between the commas.
RECURSIVE Split(_, _)
Split(s, piece) ==
  IF s = <<>> THEN <<piece>>
  ELSE IF Head(s) = "," THEN <<piece>> \o Split(Tail(s), <<>>)
  ELSE Split(Tail(s), Append(piece, Head(s)))

\* C19: for a non-empty price map generateExchangeRatesString returns, with no
\* error and whatever the order the map is gone through in, the entries
\* BASE:price joined by commas, one for each base, each price with 18
\* fractional digits, in increasing lexicographic order of the entries; for
\* the empty map it returns the empty string and errNoPriceAvailable.
C19_CanonicalRatesString ==
  ratesStr # Nil =>
    IF DOMAIN prices = {} THEN ratesStr[1] = [str |-> <<>>, err |-> TRUE]
    ELSE LET entries == Split(ratesStr[1].str, <<>>) IN
      /\ ~ratesStr[1].err
      /\ Len(entries) = Cardinality(DOMAIN prices)
      /\ {entries[i] : i \in DOMAIN entries} = Entries(prices)
      /\ \A i \in DOMAIN entries : Len(Fraction(entries[i])) = Precision
      /\ \A i, j \in DOMAIN entries : i < j => StrLess(entries[i], entries[j])
      /\ ratesStr[1].str = generateExchangeRatesString(prices)

\* C19 witness: the string of a map with the bases ATOM and ATOM1, where the
\* order of the entries is not the order of the bases.
C19_Witness ==
  /\ ratesStr # Nil
  /\ DOMAIN prices = TestBases
  /\ prices["ATOM"] # prices["ATOM1"]
  /\ prices["ATOM1"] # prices["OSMO"]

\* C20: a tick that gets past setPrices with an empty computed price map
\* returns without calling BroadcastTx: no prevote and no reveal vote is sent,
\* whatever the vote state.
C20_NoVoteWithoutPrices ==
  [][(TickStep /\ outcome' \notin AbortOutcomes /\ prices' = <<>>) =>
       (pc' = "sleep" /\ bc' = NoBc)]_vars

\* C20 witness: a tick in the period after an outstanding prevote's, away
\* from the boundary, so that the reveal was due, found no price and returned
\* the error; the prevote is still recorded.
C20_Witness ==
  /\ pc = "sleep"
  /\ outcome = "noPrice"
  /\ prices = <<>>
  /\ previousPrevote # Nil
  /\ CurrentVotePeriod(tk.blockHeight, votePeriod) = previousVotePeriod + 1
  /\ ~NearBoundary(tk.blockHeight)

\* ------------------------------------------------------------ aggregation

\* Every provider holding base holds the ticker t for it, and one does.
AllAgree(tickers, base, t) ==
  /\ Pricing(tickers, base) # {}
  /\ \A p \in Pricing(tickers, base) : tickers[p][base] = t

\* C21 as claimed: whenever all providers that price a base report the same
\* (price, volume) for it, ComputeVWAP returns exactly that price for the base.
C21_VWAPIdentity ==
  agg # Nil =>
    \A base \in AggBases, t \in TickerPriceSet :
      AllAgree(providerPrices, base, t) =>
        /\ base \in DOMAIN agg[1].prices
        /\ agg[1].prices[base] = t.Price

\* C21 amended: when all providers that price a base report the same (price,
\* volume), ComputeVWAP returns exactly that price if the volume is not zero
\* and price x volume needs no rounding, and omits the base if the volume is
\* zero.
C21_VWAPIdentityExact ==
  agg # Nil =>
    \A base \in AggBases, t \in TickerPriceSet :
      AllAgree(providerPrices, base, t) =>
        /\ t.Volume = 0 => base \notin DOMAIN agg[1].prices
        /\ (t.Volume # 0 /\ MulDiv(t.Price, t.Volume, DecUnit)[2] = 0) =>
             /\ base \in DOMAIN agg[1].prices
             /\ agg[1].prices[base] = t.Price

\* Three providers agree on ATOM at a volume of 2 and ComputeVWAP has returned,
\* while they disagree on OSMO.
C21_Witness ==
  /\ agg # Nil
  /\ \E t \in TickerPriceSet :
       /\ t.Volume = 2 * DecUnit
       /\ AllAgree(providerPrices, "ATOM", t)
       /\ Cardinality(Pricing(providerPrices, "ATOM")) = 3
       /\ agg[1].prices["ATOM"] = t.Price
  /\ Cardinality({providerPrices[p]["OSMO"] : p \in Pricing(providerPrices, "OSMO")}) > 1

\* The effective volume the formula of the specification gives a candle:
\* max(volume, 0.0001) * (weightUnit * (period - timeDiff) + 0.2).
ClaimedVolume(candle, period) ==
  LET weightUnit == Quo(OneDec - minimumTimeWeight, period)
      timeDiff == NewDec(now - candle.TimeStamp)
      volume == IF candle.Volume < minimumCandleVolume
                THEN minimumCandleVolume ELSE candle.Volume
  IN Mul(volume, Mul(weightUnit, period - timeDiff) + minimumTimeWeight)

\* Sum of price * v' and sum of v' over the in-window candles of all lists of
\* a base, v' given by V.
WindowSums(candles, base, V(_, _)) ==
  LET idx == {t \in CandleLists(candles) \X (1..2) :
                /\ t[1][2] = base
                /\ t[2] <= Len(candles[t[1][1]][base])
                /\ InWindow(candles[t[1][1]][base][t[2]])}
      cp(t) == candles[t[1][1]][base]
  IN [weighted |-> SumOver([t \in idx |-> Mul(cp(t)[t[2]].Price, V(cp(t)[t[2]], Period(cp(t))))], idx),
      volume |-> SumOver([t \in idx |-> V(cp(t)[t[2]], Period(cp(t)))], idx)]

\* C22: ComputeTVWAP returns, per base, the sum of price * v' over the sum of
\* v' of the candles inside the window, with v' = max(volume, 0.0001) *
\* (weightUnit * (period - (now - timestamp)) + 0.2), period = now - oldest
\* timestamp and weightUnit = 0.8 / period.
C22_TVWAPFormula ==
  (agg # Nil /\ ~agg[1].err) =>
    \A base \in AggBases :
      LET s == WindowSums(providerCandles, base, ClaimedVolume)
      IN s.volume # 0 =>
           /\ base \in DOMAIN agg[1].prices
           /\ agg[1].prices[base] = Quo(s.weighted, s.volume)

\* binance's two ATOM candles, both of volume 1: price 1 three minutes inside
\* the window and price 2 one minute inside it.
TwoAges ==
  ("binance" :> ("ATOM" :> <<[Price |-> NewDec(1), Volume |-> NewDec(1), TimeStamp |-> now - 2],
                             [Price |-> NewDec(2), Volume |-> NewDec(1), TimeStamp |-> timePeriod + 1]>>))
    @@ ("kraken" :> <<>>)

\* Pairs <<cp, newer, older>>: two in-window candles of one list with the same
\* price and volume, the second one older.
SameButOlder(candles) ==
  {t \in {<<candles[pb[1]][pb[2]], i, j>> : pb \in CandleLists(candles), i \in 1..2, j \in 1..2} :
     /\ t[2] <= Len(t[1]) /\ t[3] <= Len(t[1])
     /\ t[1][t[2]].Price = t[1][t[3]].Price
     /\ t[1][t[2]].Volume = t[1][t[3]].Volume
     /\ InWindow(t[1][t[2]]) /\ InWindow(t[1][t[3]])
     /\ t[1][t[3]].TimeStamp < t[1][t[2]].TimeStamp}

\* C23 as claimed: of two in-window candles of one provider and base with the
\* same price and volume, the older one's effective volume is strictly smaller.
C23_DecayStrict ==
  agg # Nil =>
    \A t \in SameButOlder(providerCandles) :
      EffectiveVolume(t[1][t[3]], Period(t[1])) < EffectiveVolume(t[1][t[2]], Period(t[1]))

\* volume * weightUnit is at least the smallest Dec.
AboveRounding(candle, period) ==
  MulDiv(CandleVolume(candle), Quo(OneDec - minimumTimeWeight, period), DecUnit)[1] >= 1

\* C23 amended: the older candle's effective volume is never larger, and it is
\* strictly smaller whenever volume * weightUnit is at least the smallest Dec
\* (a volume of zero counting as 0.0001).
C23_DecayMonotone ==
  agg # Nil =>
    \A t \in SameButOlder(providerCandles) :
      /\ EffectiveVolume(t[1][t[3]], Period(t[1])) <= EffectiveVolume(t[1][t[2]], Period(t[1]))
      /\ AboveRounding(t[1][t[2]], Period(t[1])) =>
           EffectiveVolume(t[1][t[3]], Period(t[1])) < EffectiveVolume(t[1][t[2]], Period(t[1]))

\* ComputeTVWAP has priced ATOM from two candles of volume 1 that differ in age
\* only, the older one weighing less but not nothing.
C23_Witness ==
  /\ agg # Nil /\ ~agg[1].err /\ "ATOM" \in DOMAIN agg[1].prices
  /\ \E t \in SameButOlder(providerCandles) :
       /\ t[1][t[2]].Volume = NewDec(1)
       /\ AboveRounding(t[1][t[2]], Period(t[1]))
       /\ 0 < EffectiveVolume(t[1][t[3]], Period(t[1]))
       /\ EffectiveVolume(t[1][t[3]], Period(t[1])) < EffectiveVolume(t[1][t[2]], Period(t[1]))

\* The candle's timestamp is strictly later than now - 5 minutes.
Fresh(candle) == candle.TimeStamp > now - tvwapCandlePeriod

\* The input without the candles that are not fresh.
FreshOnly(candles) ==
  [p \in DOMAIN candles |->
     [base \in DOMAIN candles[p] |-> SelectSeq(candles[p][base], Fresh)]]

AnyCandle(candles, base, P(_)) ==
  \E pb \in CandleLists(candles) :
    pb[2] = base /\ \E i \in 1..Len(candles[pb[1]][base]) : P(candles[pb[1]][base][i])

\* C24: ComputeTVWAP ignores every candle whose timestamp is not strictly
\* later than now - 5 minutes, so it returns what it returns without them; a
\* base all of whose candles are outside the window is absent from the
\* result, and an input of expired candles only gives an empty result and no
\* error.
C24_WindowIgnored ==
  agg # Nil =>
    /\ agg[1] = ComputeTVWAP(FreshOnly(providerCandles))
    /\ \A base \in AggBases :
         ~AnyCandle(providerCandles, base, Fresh) => base \notin DOMAIN agg[1].prices
    /\ (\A base \in AggBases : ~AnyCandle(providerCandles, base, Fresh)) =>
         (agg[1].prices = <<>> /\ ~agg[1].err)

\* The two parts of C24 about absence, taken alone.
C24_AbsentParts ==
  agg # Nil =>
    /\ \A base \in AggBases :
         ~AnyCandle(providerCandles, base, Fresh) => base \notin DOMAIN agg[1].prices
    /\ (\A base \in AggBases : ~AnyCandle(providerCandles, base, Fresh)) =>
         (agg[1].prices = <<>> /\ ~agg[1].err)

\* The single-provider TVWAPs of every provider and base.
TvwapsByProvider(candles) ==
  [p \in DOMAIN candles |-> ComputeTVWAP((p :> candles[p])).prices]

\* The filter has kept the provider's candles for the base.
KeptCandles(p, base) ==
  /\ p \in DOMAIN agg[1].candles
  /\ base \in DOMAIN agg[1].candles[p]
  /\ agg[1].candles[p][base] = providerCandles[p][base]

\* C25: filterCandleDeviations keeps a provider's candles for a base it has a
\* TVWAP for if and only if that TVWAP lies within T sigma of the mean of the
\* single-provider TVWAPs of the base or fewer than 3 providers price the base,
\* T being the base's threshold or 1.0; also when the provider has several bases.
C25_CandleFilter ==
  (agg # Nil /\ agg[1].op = "filterCandleDeviations" /\ ~agg[1].err) =>
    LET tvwaps == TvwapsByProvider(providerCandles)
        sd == ComputeStandardDeviationsAndMeans(tvwaps)
    IN \A p \in DOMAIN tvwaps : \A base \in DOMAIN tvwaps[p] :
         KeptCandles(p, base) <=>
           \/ Cardinality(Pricing(tvwaps, base)) < 3
           \/ isBetween(tvwaps[p][base], sd.means[base],
                        Mul(sd.deviations[base],
                            IF base \in DOMAIN deviations THEN deviations[base] ELSE NewDec(1)))

\* C25 on the inputs in which no provider has candles for more than one base.
C25_SingleBaseProviders ==
  (\A p \in DOMAIN providerCandles : Cardinality(DOMAIN providerCandles[p]) <= 1)
    => C25_CandleFilter

\* The provider's price of the base is the mean of the prices the providers
\* give for the base.
AtMean(priceMap, p, base) ==
  SumOver([q \in Pricing(priceMap, base) |-> priceMap[q][base]], Pricing(priceMap, base))
    = Cardinality(Pricing(priceMap, base)) * priceMap[p][base]

\* C26: whatever threshold the configuration's validation has accepted, neither
\* filter drops a provider whose price for a base (ticker price, resp.
\* single-provider TVWAP) equals the cross-provider mean of that base.
C26_MeanNeverDropped ==
  agg # Nil =>
    /\ agg[1].op = "FilterTickerDeviations" =>
         LET priceMap == [p \in DOMAIN providerPrices |->
               [base \in DOMAIN providerPrices[p] |-> providerPrices[p][base].Price]]
         IN \A p \in DOMAIN priceMap : \A base \in DOMAIN priceMap[p] :
              AtMean(priceMap, p, base) =>
                /\ p \in DOMAIN agg[1].tickers
                /\ base \in DOMAIN agg[1].tickers[p]
    /\ (agg[1].op = "filterCandleDeviations" /\ ~agg[1].err) =>
         LET tvwaps == TvwapsByProvider(providerCandles)
         IN \A p \in DOMAIN tvwaps : \A base \in DOMAIN tvwaps[p] :
              AtMean(tvwaps, p, base) => KeptCandles(p, base)

\* C26 for the thresholds that are not negative and the inputs in which no
\* provider has candles for more than one base.
C26_NonNegativeThresholds ==
  (/\ \A base \in DOMAIN deviations : deviations[base] >= 0
   /\ \A p \in DOMAIN providerCandles : Cardinality(DOMAIN providerCandles[p]) <= 1)
    => C26_MeanNeverDropped

\* The price the conversion has given the provider's observation of the base:
\* the ticker's, or the first candle's.
ConvertedPrice(p, base) ==
  IF agg[1].op = "ConvertCandlesToUSD" THEN agg[1].candles[p][base][1].Price
  ELSE agg[1].tickers[p][base].Price

Converted(p, base) ==
  IF agg[1].op = "ConvertCandlesToUSD"
  THEN p \in DOMAIN agg[1].candles /\ base \in DOMAIN agg[1].candles[p]
  ELSE p \in DOMAIN agg[1].tickers /\ base \in DOMAIN agg[1].tickers[p]

\* The provider's observations of ATOM, quoted in OSMO, before the conversion.
AtomInOsmo == {p \in Providers : "ATOM" \in DOMAIN providerPrices[p]}
SourcesOsmo(p) == "OSMO" \in DOMAIN providerPrices[p]

FreshCandleBases ==
  {b \in AggBases : \E p \in DOMAIN providerCandles :
     /\ b \in DOMAIN providerCandles[p]
     /\ \E i \in 1..Len(providerCandles[p][b]) : InWindow(providerCandles[p][b][i])}
TickerBases ==
  {b \in AggBases : \E p \in DOMAIN providerPrices : b \in DOMAIN providerPrices[p]}

\* The TVWAP map and the VWAP map GetComputedPrices chooses between, where
\* filterCandleDeviations' range over each provider's bases ended with last.
TvwapMap(last) ==
  ComputeTVWAP(filterCandleDeviations(providerCandles, deviations, last).candles).prices
VwapMap == ComputeVWAP(FilterTickerDeviations(providerPrices, deviations))

\* C27: GetComputedPrices returns the candle TVWAP map whenever that map has
\* at least one base and the ticker VWAP map only when the TVWAP map is empty;
\* the result is never a mixture: every returned price is a candle price and
\* every returned base has a candle inside the window, or every returned price
\* is a ticker price, so a base the non-empty TVWAP map lacks is not filled in
\* from the tickers.
C27_TVWAPFirst ==
  agg # Nil =>
    /\ ~agg[1].err
    /\ agg[1].prices = IF DOMAIN TvwapMap(agg[1].last) # {}
                        THEN TvwapMap(agg[1].last) ELSE VwapMap
    /\ \/ /\ DOMAIN agg[1].prices # {}
          /\ DOMAIN agg[1].prices \subseteq FreshCandleBases
          /\ \A b \in DOMAIN agg[1].prices : agg[1].prices[b] = NewDec(2)
       \/ /\ DOMAIN agg[1].prices = TickerBases
          /\ \A b \in DOMAIN agg[1].prices : agg[1].prices[b] = NewDec(3)
          /\ DOMAIN TvwapMap(agg[1].last) = {}

\* Candles price ATOM only while the tickers hold OSMO as well: the result is
\* the TVWAP of ATOM alone, OSMO is not taken from the tickers.
C27_Witness ==
  /\ agg # Nil /\ ~agg[1].err
  /\ FreshCandleBases = {"ATOM"} /\ TickerBases = {"ATOM", "OSMO"}
  /\ DOMAIN agg[1].prices = {"ATOM"} /\ agg[1].prices["ATOM"] = NewDec(2)

\* All candles have aged out: the result is the VWAP of the tickers.
C27_FallbackWitness ==
  /\ agg # Nil /\ ~agg[1].err
  /\ FreshCandleBases = {} /\ DOMAIN providerCandles # {}
  /\ DOMAIN agg[1].prices = {"ATOM", "OSMO"} /\ agg[1].prices["ATOM"] = NewDec(3)

\* ------------------------------------------------------------------- C29

\* The provider has no ticker entry and no candle entry in the snapshot.
AbsentFromSnapshot(p) ==
  /\ p \in DOMAIN providerPrices => DOMAIN providerPrices[p] = {}
  /\ p \in DOMAIN providerCandles => DOMAIN providerCandles[p] = {}

C29_OthersUnaffected ==
  [][\A p \in Providers :
        fetch[p].pc = "done" /\ p \in DOMAIN providerPrices =>
          /\ p \in DOMAIN providerPrices' /\ providerPrices'[p] = providerPrices[p]
          /\ p \in DOMAIN providerCandles' /\ providerCandles'[p] = providerCandles[p]]_vars

\* ------------------------------------------------------------------- C30

\* Some provider has not answered within the provider timeout and every other
\* goroutine has returned.
OnlyLateOutstanding ==
  /\ \E p \in Providers : fetch[p].pc # "done"
  /\ \A p \in Providers : fetch[p].pc # "done" =>
       fetch[p].late /\ fetch[p].pc \in {"GetTickerPrices", "GetCandlePrices"}

\* C30: a provider whose GetTickerPrices or GetCandlePrices call has not
\* returned within the provider timeout does not block the tick: once the
\* other providers are done the tick can go on to the aggregation.
C30_LateProviderSkipped ==
  OnlyLateOutstanding /\ agg = Nil => ENABLED WaitAndCompute

\* ------------------------------------------------------------------- C31

\* The symbols of the requested pairs, BASEQUOTE.
RequestedSymbols(pairs) == {pairs[i].Base \o pairs[i].Quote : i \in 1..Len(pairs)}

\* C31: GetTickerPrices returns, when every requested pair has a cached
\* ticker, exactly one entry per requested pair, keyed BASEQUOTE and holding
\* the cached ticker, without error; as soon as a requested pair is absent
\* from the cache it returns a nil map and the ticker-not-found error naming
\* the first such pair.
C31_AllOrNothing ==
  agg # Nil /\ agg[1].op = "GetTickerPrices" =>
    LET pairs == agg[1].pairs
        missing == {i \in 1..Len(pairs) :
                      pairs[i].Base \o pairs[i].Quote \notin DOMAIN tickerCache}
    IN IF missing = {}
       THEN /\ agg[1].err = "" /\ ~agg[1].nil
            /\ DOMAIN agg[1].prices = RequestedSymbols(pairs)
            /\ \A k \in DOMAIN agg[1].prices : agg[1].prices[k] = tickerCache[k]
       ELSE /\ agg[1].nil /\ agg[1].prices = <<>>
            /\ \E i \in missing :
                 /\ \A j \in missing : i <= j
                 /\ agg[1].err = pairs[i].Base \o pairs[i].Quote

\* ATOMUSD is cached, OSMOUSD is not, and both were requested: nothing is
\* returned, not even the ticker of ATOMUSD.
C31_Witness ==
  /\ agg # Nil /\ agg[1].op = "GetTickerPrices"
  /\ DOMAIN tickerCache = {"ATOMUSD"}
  /\ agg[1].pairs = <<[Base |-> "ATOM", Quote |-> "USD"], [Base |-> "OSMO", Quote |-> "USD"]>>
  /\ agg[1].nil /\ agg[1].err = "OSMOUSD"

\* Both requested pairs are cached: two entries under ATOMUSD and OSMOUSD.
C31_WitnessAll ==
  /\ agg # Nil /\ agg[1].op = "GetTickerPrices"
  /\ Len(agg[1].pairs) = 2 /\ ~agg[1].nil
  /\ DOMAIN agg[1].prices = {"ATOMUSD", "OSMOUSD"}

\* ------------------------------------------------------------------- C32

\* Nothing but its quotes can make ParseConfig reject the configuration.
OtherwiseValid(c) ==
  /\ \A i \in 1..Len(c.CurrencyPairs) :
       \A k \in 1..Len(c.CurrencyPairs[i].Providers) :
         c.CurrencyPairs[i].Providers[k] \in SupportedProviders
  /\ \A i \in 1..Len(c.Deviations) : ~(c.Deviations[i].Threshold > maxDeviationThreshold)

\* Every quote other than USD is the base of a configured pair quoted in USD.
QuotesBridged(c) ==
  \A i \in 1..Len(c.CurrencyPairs) :
    ToUpper(c.CurrencyPairs[i].Quote) # DenomUSD =>
      \E j \in 1..Len(c.CurrencyPairs) :
        /\ c.CurrencyPairs[j].Base = c.CurrencyPairs[i].Quote
        /\ c.CurrencyPairs[j].Quote = DenomUSD

\* C32: ParseConfig accepts a configuration with a pair of a non-USD quote Q
\* if some configured pair has base Q and quote USD, and rejects it when no
\* such pair exists.
C32_QuoteValidation ==
  agg # Nil /\ agg[1].op = "ParseConfig" /\ OtherwiseValid(cfg[1]) =>
    (agg[1].err = "" <=> QuotesBridged(cfg[1]))

\* The half of C32 that holds: a configuration with an unbridged quote is
\* rejected; so is every configuration with a quote other than USD.
C32_RejectsUnbridged ==
  agg # Nil /\ agg[1].op = "ParseConfig" =>
    /\ ~QuotesBridged(cfg[1]) => agg[1].err # ""
    /\ (\E i \in 1..Len(cfg[1].CurrencyPairs) :
          ToUpper(cfg[1].CurrencyPairs[i].Quote) # DenomUSD) => agg[1].err # ""

\* ------------------------------------------------------------------- C33

\* C33: with provider_min_override set CheckProviderMinimum never fails,
\* whether or not the currency provider tracker could be started.
C33_OverrideDisablesCheck ==
  agg # Nil /\ agg[1].op = "CheckProviderMinimum" /\ cfg[1].ProviderMinOverride =>
    ~agg[1].err

\* C33 amended: with provider_min_override set CheckProviderMinimum does not
\* fail when the currency provider tracker could not be started; when the
\* tracker was started the minimum it has set for a base is enforced whatever
\* the flag: the check fails exactly if some base without the mock provider
\* has fewer providers than that minimum.
C33_OverrideOnTrackerError ==
  agg # Nil /\ agg[1].op = "CheckProviderMinimum" =>
    /\ cfg[1].ProviderMinOverride /\ agg[1].tracker = Nil => ~agg[1].err
    /\ agg[1].tracker # Nil =>
         (agg[1].err <=>
            \E base \in ConfiguredBases(cfg[1]) :
              /\ "mock" \notin ProvidersOfBase(cfg[1], base)
              /\ base \in DOMAIN agg[1].tracker[1]
              /\ Cardinality(ProvidersOfBase(cfg[1], base)) < agg[1].tracker[1][base])

\* The override is set, the tracker failed, ATOM has one provider, below the
\* default minimum of two, and the check passed.
C33_Witness ==
  /\ agg # Nil /\ agg[1].op = "CheckProviderMinimum"
  /\ cfg[1].ProviderMinOverride /\ agg[1].tracker = Nil
  /\ ProvidersOfBase(cfg[1], "ATOM") = {"kraken"}
  /\ ~agg[1].err

\* ------------------------------------------------------------------- C40

\* C40: for a configuration that passed validation the lazy creation of the
\* providers in setPrices does not fail with provider-not-found.
C40_ValidatedProvidersCreated ==
  agg # Nil /\ agg[1].op = "setPrices" => agg[1].notFound = ""

\* ------------------------------------------------------------------- C34

\* C34: the time GetLastPriceSyncTimestamp returns is the zero time before any
\* tick and afterwards the completion time of the last successful tick: a tick
\* that fails does not advance it.
C34_FailedTickKeepsTimestamp ==
  [][pc = "tick" /\ pc' = "sleep" /\ outcome' \in TickFailed =>
       lastPriceSyncTS' = lastPriceSyncTS]_vars

\* The parts of C34 that hold: the time is the zero time until the first tick
\* has returned, GetLastPriceSyncTimestamp returns lastPriceSyncTS as it is,
\* and a tick that succeeds sets it to the time of its completion.
C34_SuccessfulTickStamps ==
  [][/\ agg' # Nil /\ agg' # agg => agg'[1].ts = lastPriceSyncTS
     /\ pc = "tick" /\ pc' = "sleep" /\ outcome' \in TickSucceeded =>
          lastPriceSyncTS' = wallClock]_vars

\* ------------------------------------------------------------------- C35

\* C35: whenever a tick broadcasts a reveal vote, its current vote period is
\* the period recorded for the outstanding prevote plus one; a reveal is never
\* broadcast in the period its prevote was recorded in, at any chain height.
C35_RevealInNextPeriod ==
  (bc.msg # Nil /\ bc.msg[1].kind = "vote") =>
    CurrentVotePeriod(tk.blockHeight, tk.oracleVotePeriod) = previousVotePeriod + 1

\* ------------------------------------------------------------------- C36

\* C36: between ticks previousPrevote is nil if and only if previousVotePeriod
\* is 0.
C36_VoteStateConsistent ==
  BetweenTicks => ((previousPrevote = Nil) <=> (previousVotePeriod = 0))

\* The half of C36 that holds: with no prevote outstanding previousVotePeriod
\* is 0.
C36_NilImpliesZero ==
  BetweenTicks /\ previousPrevote = Nil => previousVotePeriod = 0

\* ------------------------------------------------------------------- C38

\* The vote period the outstanding prevote was recorded in.
RecordedPeriod == previousPrevote[1].SubmitBlockHeight \div votePeriod

\* C38, in the form a finite run refutes: an outstanding prevote is resolved
\* by the reveal or, failing that, by the period-miss reset, so no prevote
\* outlives a tick that reached checkVotingPeriod away from the period's
\* boundary in a period later than the one after its own.
C38_PrevoteResolved ==
  (/\ pc = "sleep"
   /\ outcome \notin AbortOutcomes
   /\ ~NearBoundary(tk.blockHeight)
   /\ previousPrevote # Nil) =>
    CurrentVotePeriod(tk.blockHeight, votePeriod) <= RecordedPeriod + 1

\* What holds of C38: a prevote recorded in a period other than 0 is resolved
\* in this way.
C38_ResolvedUnlessPeriodZero ==
  (/\ pc = "sleep"
   /\ outcome \notin AbortOutcomes
   /\ ~NearBoundary(tk.blockHeight)
   /\ previousPrevote # Nil
   /\ RecordedPeriod # 0) =>
    CurrentVotePeriod(tk.blockHeight, votePeriod) <= RecordedPeriod + 1

\* C37: within one BroadcastTx call an attempt is made only from the loop,
\* at the height just read, which is above the height of the attempt before
\* it and above startHeight - 1; lastCheckHeight, the height of the last
\* attempt, changes at no other step of the call, so after a failed attempt
\* there is no new attempt until a higher height is read.
C37_OneAttemptPerBlock ==
  [][/\ (pc # "inTx" /\ pc' = "inTx") =>
          /\ pc = "broadcast"
          /\ bc'.lastCheckHeight = lastChainHeight
          /\ bc'.lastCheckHeight > bc.lastCheckHeight
          /\ bc'.lastCheckHeight > bc.nextBlockHeight - 1
     /\ (/\ pc \in {"broadcast", "inTx", "waitTx"}
         /\ pc' \in {"broadcast", "inTx", "waitTx"}
         /\ ~(pc = "broadcast" /\ pc' = "inTx")) =>
          /\ bc'.lastCheckHeight = bc.lastCheckHeight
          /\ bc'.nextBlockHeight = bc.nextBlockHeight]_vars

\* C37 witness: an attempt has failed and BroadcastTx is back in its loop
\* reading the height it made that attempt at.
C37_Witness ==
  /\ pc = "broadcast"
  /\ bc.result \in {"temporary", "unrecoverable"}
  /\ lastChainHeight = bc.lastCheckHeight
  /\ bc.lastCheckHeight > bc.nextBlockHeight - 1

\* C39: the price map GetComputedPrices has returned is the one it returns
\* for the same snapshot, pairs, thresholds and time with every other order
\* of iteration over the providers' bases.
C39_Deterministic ==
  (agg # Nil /\ agg[1].op = "GetComputedPrices") =>
    \A last \in LastVisited(providerCandles) :
      LET other == GetComputedPrices(providerCandles, providerPrices,
                                     providerPairs, deviations, last)
      IN other.prices = agg[1].prices /\ other.err = agg[1].err

\* C39 where no provider holds candles for two bases: the result is the same
\* for every order of iteration.
C39_DeterministicSingleBase ==
  (/\ agg # Nil /\ agg[1].op = "GetComputedPrices"
   /\ \A p \in DOMAIN providerCandles : Cardinality(DOMAIN providerCandles[p]) <= 1) =>
    \A last \in LastVisited(providerCandles) :
      LET other == GetComputedPrices(providerCandles, providerPrices,
                                     providerPairs, deviations, last)
      IN other.prices = agg[1].prices /\ other.err = agg[1].err
====
